---- MODULE Spec2Model ----
(***************************************************************************)
(* A model of the aws-mlops-framework sources:                             *)
(*   - the inference Lambda      (lib/blueprints/byom/lambdas/inference)    *)
(*   - the solution helper Lambda (lambdas/solution_helper)                 *)
(*   - the pipeline-definition factories (deploy_actions, iam_policies)     *)
(*   - the orchestrator test fixtures (required keys, events, parameters)   *)
(*   - the image-builder stack and the pipeline it declares                 *)
(*   - the loading of the pipeline-definition modules (their imports)       *)
(* Python dicts are functions whose DOMAIN is the set of keys; Python lists *)
(* are sequences; None-or-value results are sequences of length 0 or 1.     *)
(***************************************************************************)
EXTENDS Integers, Sequences, FiniteSets, TLC

VARIABLES helperData, last, built, pipeline

vars == <<helperData, last, built, pipeline>>

(***************************************************************************)
(* Dict helpers                                                            *)
(***************************************************************************)
EmptyDict == [k \in {} |-> ""]

\* dict.pop(k, None): the dict without key k
Pop(d, k) == [x \in (DOMAIN d) \ {k} |-> d[x]]

\* d[k] = v
Put(d, k, v) == [x \in (DOMAIN d) \cup {k} |-> IF x = k THEN v ELSE d[x]]

\* d.update(e)
Update(d, e) == [x \in (DOMAIN d) \cup (DOMAIN e) |-> IF x \in DOMAIN e THEN e[x] ELSE d[x]]

\* the set of elements of a sequence
Range(s) == {s[i] : i \in DOMAIN s}

(***************************************************************************)
(* Bounds of the model                                                     *)
(***************************************************************************)
\* Deployments of the solution: each runs the two Lambdas in execution
\* environments of its own, so each has its own module-level helper.Data
Containers == {"d1", "d2"}

\* how many distinct values uuid.uuid4() is allowed to return
MaxFresh == 2

\* how many distinct instants datetime.utcnow() is allowed to read
MaxClock == 2

(***************************************************************************)
(* bytes.decode(): strict UTF-8 decoding of a sequence of byte values to a  *)
(* sequence of code points.  The result is <<TRUE, str>> or <<FALSE, <<>>>> *)
(* when Python raises UnicodeDecodeError.                                   *)
(***************************************************************************)
IsCont(b) == b >= 128 /\ b <= 191

RECURSIVE DecodeFrom(_, _)
DecodeFrom(bs, i) ==
    IF i > Len(bs) THEN <<TRUE, <<>>>>
    ELSE LET b1 == bs[i]
             n  == IF b1 < 128 THEN 1
                   ELSE IF b1 >= 194 /\ b1 <= 223 THEN 2
                   ELSE IF b1 >= 224 /\ b1 <= 239 THEN 3
                   ELSE IF b1 >= 240 /\ b1 <= 244 THEN 4
                   ELSE 0
         IN IF n = 0 \/ i + n - 1 > Len(bs) THEN <<FALSE, <<>>>>
            ELSE LET ok == /\ \A j \in 1..(n - 1) : IsCont(bs[i + j])
                           /\ (b1 = 224 => bs[i + 1] >= 160)
                           /\ (b1 = 237 => bs[i + 1] <= 159)
                           /\ (b1 = 240 => bs[i + 1] >= 144)
                           /\ (b1 = 244 => bs[i + 1] <= 143)
                     cp == IF n = 1 THEN b1
                           ELSE IF n = 2 THEN (b1 - 192) * 64 + (bs[i + 1] - 128)
                           ELSE IF n = 3 THEN (b1 - 224) * 4096 + (bs[i + 1] - 128) * 64
                                              + (bs[i + 2] - 128)
                           ELSE (b1 - 240) * 262144 + (bs[i + 1] - 128) * 4096
                                + (bs[i + 2] - 128) * 64 + (bs[i + 3] - 128)
                     rest == DecodeFrom(bs, i + n)
                 IN IF ok /\ rest[1] THEN <<TRUE, <<cp>> \o rest[2]>>
                    ELSE <<FALSE, <<>>>>

decode(bs) == DecodeFrom(bs, 1)

(***************************************************************************)
(* Inference Lambda: lib/blueprints/byom/lambdas/inference/main.py          *)
(***************************************************************************)
Payloads == {"1,2,3", "4,5,6"}
ContentTypes == {"text/csv", "application/json"}
EndpointNames == {"endpoint-a", "endpoint-b"}

\* request bodies: 'payload' and 'ContentType' may each be absent
EventBodies ==
    UNION {[K -> Payloads \cup ContentTypes] : K \in SUBSET {"payload", "ContentType"}}

WellFormedBodies ==
    {b \in EventBodies : /\ "payload" \in DOMAIN b => b["payload"] \in Payloads
                         /\ "ContentType" \in DOMAIN b => b["ContentType"] \in ContentTypes}

\* response bodies the endpoint may stream back (byte values)
ResponseBytes == {<<>>, <<48, 46>>, <<195, 169>>, <<226, 130>>}

\* what sm_client.invoke_endpoint does: raise, or return a response with a Body
SmOutcomes == {[raises |-> TRUE, Body |-> <<>>]}
              \cup {[raises |-> FALSE, Body |-> b] : b \in ResponseBytes}

\* no factory or fixture has been called yet
NoCall == [op |-> "none", fixture |-> "", args |-> EmptyDict, out |-> <<>>]

NoInvocation ==
    [kind |-> "none", event |-> EmptyDict, eventAfter |-> EmptyDict, env |-> "",
     world |-> EmptyDict, warm |-> FALSE,
     smCalls |-> <<>>, posts |-> <<>>, logged |-> "", data |-> EmptyDict,
     raised |-> "", response |-> <<>>]

\* invoke with response["Body"].read() returned without .decode()
invoke_undecoded(event_body, endpoint_name, sm) ==
    IF "payload" \notin DOMAIN event_body \/ "ContentType" \notin DOMAIN event_body
    THEN [smCalls |-> <<>>, raised |-> "KeyError", response |-> <<>>]
    ELSE LET call == [EndpointName |-> endpoint_name,
                      Body |-> event_body["payload"],
                      ContentType |-> event_body["ContentType"]]
         IN IF sm.raises
            THEN [smCalls |-> <<call>>, raised |-> "ClientError", response |-> <<>>]
            ELSE [smCalls |-> <<call>>, raised |-> "",
                  response |-> <<[statusCode |-> 200,
                                  isBase64Encoded |-> FALSE,
                                  body |-> sm.Body,
                                  headers |-> ("Content-Type" :> "plain/text")]>>]

\* invoke with one retry of invoke_endpoint after a failed call
invoke_retry(event_body, endpoint_name, sm) ==
    IF "payload" \notin DOMAIN event_body \/ "ContentType" \notin DOMAIN event_body
    THEN [smCalls |-> <<>>, raised |-> "KeyError", response |-> <<>>]
    ELSE LET call == [EndpointName |-> endpoint_name,
                      Body |-> event_body["payload"],
                      ContentType |-> event_body["ContentType"]]
         IN IF sm.raises
            THEN [smCalls |-> <<call, call>>, raised |-> "ClientError", response |-> <<>>]
            ELSE LET predictions == decode(sm.Body)
                 IN IF ~predictions[1]
                    THEN [smCalls |-> <<call>>, raised |-> "UnicodeDecodeError",
                          response |-> <<>>]
                    ELSE [smCalls |-> <<call>>, raised |-> "",
                          response |-> <<[statusCode |-> 200,
                                          isBase64Encoded |-> FALSE,
                                          body |-> predictions[2],
                                          headers |-> ("Content-Type" :> "plain/text")]>>]

\* invoke answering a failed invoke_endpoint call with an empty 200 response
invoke_swallow(event_body, endpoint_name, sm) ==
    IF "payload" \notin DOMAIN event_body \/ "ContentType" \notin DOMAIN event_body
    THEN [smCalls |-> <<>>, raised |-> "KeyError", response |-> <<>>]
    ELSE LET call == [EndpointName |-> endpoint_name,
                      Body |-> event_body["payload"],
                      ContentType |-> event_body["ContentType"]]
             predictions == IF sm.raises THEN <<TRUE, <<>>>> ELSE decode(sm.Body)
         IN IF ~predictions[1]
            THEN [smCalls |-> <<call>>, raised |-> "UnicodeDecodeError", response |-> <<>>]
            ELSE [smCalls |-> <<call>>, raised |-> "",
                  response |-> <<[statusCode |-> 200,
                                  isBase64Encoded |-> FALSE,
                                  body |-> predictions[2],
                                  headers |-> ("Content-Type" :> "plain/text")]>>]

\* invoke(event_body, endpoint_name, sm_client): the calls made on sm_client,
\* the exception that leaves invoke ("" when none) and the returned dict
invoke(event_body, endpoint_name, sm) ==
    IF "payload" \notin DOMAIN event_body \/ "ContentType" \notin DOMAIN event_body
    THEN [smCalls |-> <<>>, raised |-> "KeyError", response |-> <<>>]
    ELSE LET call == [EndpointName |-> endpoint_name,
                      Body |-> event_body["payload"],
                      ContentType |-> event_body["ContentType"]]
         IN IF sm.raises
            THEN [smCalls |-> <<call>>, raised |-> "ClientError", response |-> <<>>]
            ELSE LET predictions == decode(sm.Body)
                 IN IF ~predictions[1]
                    THEN [smCalls |-> <<call>>, raised |-> "UnicodeDecodeError",
                          response |-> <<>>]
                    ELSE [smCalls |-> <<call>>, raised |-> "",
                          response |-> <<[statusCode |-> 200,
                                          isBase64Encoded |-> FALSE,
                                          body |-> predictions[2],
                                          headers |-> ("Content-Type" :> "plain/text")]>>]

\* handler(event, context) of the inference Lambda of deployment c:
\* ENDPOINT_NAME comes from the environment, the body from the event; the
\* module keeps no state of its own (logger and sagemaker_client are never
\* assigned again), and what leaves invoke is what the handler passes on
InferenceHandler(c, event_body, endpoint_name, sm) ==
    LET r == invoke(event_body, endpoint_name, sm)
    IN /\ last' = [last EXCEPT ![c] =
                     [kind |-> "inference", event |-> event_body,
                      eventAfter |-> event_body, env |-> endpoint_name,
                      world |-> sm, warm |-> FALSE, smCalls |-> r.smCalls, posts |-> <<>>,
                      logged |-> "", data |-> EmptyDict, raised |-> r.raised, response |-> r.response]]
       /\ UNCHANGED <<helperData, built, pipeline>>

(***************************************************************************)
(* Solution helper Lambda: lambdas/solution_helper/lambda_function.py       *)
(***************************************************************************)
RequestTypes == {"Create", "Update", "Delete"}

\* the values uuid.uuid4() may return and the instants datetime.utcnow() may read
FreshUUIDs == {<<"uuid4", i>> : i \in 1..MaxFresh}
Timestamps == 1..MaxClock

UUIDProps ==
    {[ServiceToken |-> "arn:aws:lambda:helper", Resource |-> "UUID",
      CreateModelRegistry |-> v] : v \in {"Yes", "No"}}

MetricProps ==
    {[ServiceToken |-> "arn:aws:lambda:helper", Resource |-> "AnonymousMetric",
      SolutionId |-> "SO0136", UUID |-> "uuid-0", gitSelected |-> g,
      bucketSelected |-> b, Region |-> "us-east-1"] :
        g \in {"", "repo"}, b \in {"", "bucket"}}

MetricKeys == {"gitSelected", "bucketSelected", "SolutionId", "UUID"}

\* metric properties with one of the keys custom_resource reads left out
MetricPropsMissing ==
    {Pop([ServiceToken |-> "arn:aws:lambda:helper", Resource |-> "AnonymousMetric",
          SolutionId |-> "SO0136", UUID |-> "uuid-0", gitSelected |-> "repo",
          bucketSelected |-> "", Region |-> "us-east-1"], k) : k \in MetricKeys}

OtherProps ==
    {[ServiceToken |-> "arn:aws:lambda:helper", Resource |-> "Other"],
     [ServiceToken |-> "arn:aws:lambda:helper"]}

ResourceProps == UUIDProps \cup MetricProps \cup MetricPropsMissing \cup OtherProps

HelperEvents == [RequestType : RequestTypes, ResourceProperties : ResourceProps]

\* what requests.post does: raise a RequestException, or return a response
HttpOutcomes == {[raises |-> TRUE, Body |-> <<>>], [raises |-> FALSE, Body |-> <<>>]}

\* _sanitize_data without the removal of UUID
_sanitize_data_keep_uuid(resource_properties) ==
    Pop(Pop(Pop(resource_properties, "ServiceToken"), "Resource"), "SolutionId")

\* the dict after the four pops, which is the dict the function was given
\* (changed in place) and the one it returns
_sanitize_data(resource_properties) ==
    Pop(Pop(Pop(Pop(resource_properties, "ServiceToken"), "Resource"), "SolutionId"), "UUID")

\* A dict object is [id, dict]: two objects with one id are one object, and a
\* change made through either is seen through both.
\* copy that hands back the object it was given
copy_alias(obj) == obj

\* copy.copy(obj): a new dict object with the same keys and values
copy(obj) == [id |-> "copy", dict |-> obj.dict]

\* the AnonymousMetric branch of custom_resource: the payloads handed to
\* requests.post, the message logged by the except clause that caught an
\* exception ("" when none was raised), and event["ResourceProperties"] as
\* it is left
send_metric(request_type, resource_properties, now, http) ==
    LET original == [id |-> "ResourceProperties", dict |-> resource_properties]
        argument == copy(original)
        metrics_data == Put(_sanitize_data(argument.dict), "RequestType", request_type)
        \* resource_properties as read after the sanitising of `argument`
        properties == IF argument.id = original.id THEN metrics_data
                      ELSE resource_properties
    IN IF MetricKeys \subseteq DOMAIN properties
       THEN [posts |-> <<[Solution |-> properties["SolutionId"],
                          gitSelected |-> IF properties["gitSelected"] # ""
                                          THEN "True" ELSE "False",
                          bucketSelected |-> IF properties["bucketSelected"] # ""
                                             THEN "True" ELSE "False",
                          UUID |-> properties["UUID"],
                          TimeStamp |-> now,
                          Data |-> metrics_data]>>,
             logged |-> IF http.raises THEN "Could not send usage data" ELSE "",
             properties |-> properties]
       ELSE [posts |-> <<>>, logged |-> "Unknown error when trying to send usage data",
             properties |-> properties]

\* custom_resource without the `except Exception` clause: a missing key leaves
\* the function as KeyError
custom_resource_uncaught(data, event, random_id, now, http) ==
    LET request_type == event.RequestType
        resource_properties == event.ResourceProperties
    IN IF "Resource" \notin DOMAIN resource_properties
       THEN [data |-> data, posts |-> <<>>, logged |-> "", raised |-> "KeyError",
             event |-> event]
       ELSE LET resource == resource_properties["Resource"]
            IN IF resource = "UUID" /\ request_type = "Create"
               THEN [data |-> Update(data, [UUID |-> random_id]), posts |-> <<>>,
                     logged |-> "", raised |-> "", event |-> event]
               ELSE IF resource = "AnonymousMetric"
               THEN LET m == send_metric(request_type, resource_properties, now, http)
                    IN [data |-> data, posts |-> m.posts,
                        logged |-> IF m.posts = <<>> THEN "" ELSE m.logged,
                        raised |-> IF m.posts = <<>> THEN "KeyError" ELSE "",
                        event |-> [event EXCEPT !.ResourceProperties = m.properties]]
               ELSE [data |-> data, posts |-> <<>>, logged |-> "", raised |-> "",
                     event |-> event]

\* custom_resource writing a UUID for every request type of the UUID resource
custom_resource_any_request(data, event, random_id, now, http) ==
    LET request_type == event.RequestType
        resource_properties == event.ResourceProperties
    IN IF "Resource" \notin DOMAIN resource_properties
       THEN [data |-> data, posts |-> <<>>, logged |-> "", raised |-> "KeyError",
             event |-> event]
       ELSE LET resource == resource_properties["Resource"]
            IN IF resource = "UUID"
               THEN [data |-> Update(data, [UUID |-> random_id]), posts |-> <<>>,
                     logged |-> "", raised |-> "", event |-> event]
               ELSE IF resource = "AnonymousMetric"
               THEN LET m == send_metric(request_type, resource_properties, now, http)
                    IN [data |-> data, posts |-> m.posts, logged |-> m.logged,
                        raised |-> "",
                        event |-> [event EXCEPT !.ResourceProperties = m.properties]]
               ELSE [data |-> data, posts |-> <<>>, logged |-> "", raised |-> "",
                     event |-> event]

\* custom_resource(event, _) run with helper.Data = data: the new helper.Data,
\* the payloads posted, the exception that leaves the function and the event
\* as the call leaves it
custom_resource(data, event, random_id, now, http) ==
    LET request_type == event.RequestType
        resource_properties == event.ResourceProperties
    IN IF "Resource" \notin DOMAIN resource_properties
       THEN [data |-> data, posts |-> <<>>, logged |-> "", raised |-> "KeyError",
             event |-> event]
       ELSE LET resource == resource_properties["Resource"]
            IN IF resource = "UUID" /\ request_type = "Create"
               THEN [data |-> Update(data, [UUID |-> random_id]), posts |-> <<>>,
                     logged |-> "", raised |-> "", event |-> event]
               ELSE IF resource = "AnonymousMetric"
               THEN LET m == send_metric(request_type, resource_properties, now, http)
                    IN [data |-> data, posts |-> m.posts, logged |-> m.logged,
                        raised |-> "",
                        event |-> [event EXCEPT !.ResourceProperties = m.properties]]
               ELSE [data |-> data, posts |-> <<>>, logged |-> "", raised |-> "",
                     event |-> event]

\* helper.Data carried over from the previous invocation in the same environment
crhelper_init_keep(data) == data

\* helper.Data when the decorated function is entered: CfnResource.__call__
\* starts every invocation with Data = {}
crhelper_init(data) == EmptyDict

\* handler(event, context) of the solution helper of deployment c: helper(event,
\* context) initialises the response, runs custom_resource for Create, Update
\* and Delete alike, and answers CloudFormation with helper.Data
SolutionHelperHandler(c, event, random_id, now, http) ==
    LET r == custom_resource(crhelper_init(helperData[c]), event, random_id, now, http)
    IN /\ helperData' = [helperData EXCEPT ![c] = r.data]
       /\ last' = [last EXCEPT ![c] =
                     [kind |-> "helper", event |-> event, eventAfter |-> r.event,
                      env |-> "", world |-> http,
                      warm |-> helperData[c] # EmptyDict,
                      smCalls |-> <<>>, posts |-> r.posts, logged |-> r.logged,
                      data |-> r.data, raised |-> r.raised, response |-> <<>>]]
       /\ UNCHANGED <<built, pipeline>>

(***************************************************************************)
(* Orchestrator test fixtures:                                              *)
(* lambdas/pipeline_orchestration/tests/fixtures/orchestrator_fixtures.py   *)
(* A dict literal whose order matters is a sequence of <<key, value>> pairs *)
(* in insertion order; a list of tuples is a sequence of pairs.             *)
(***************************************************************************)
\* os.environ as set by the autouse fixture mock_env_variables
Environ ==
    [BLUEPRINT_BUCKET_URL |-> "testurl",
     NOTIFICATION_EMAIL |-> "test@example.com",
     ASSETS_BUCKET |-> "testassetsbucket",
     BLUEPRINT_BUCKET |-> "testbucket",
     PIPELINE_STACK_NAME |-> "mlops-pipeline",
     CFN_ROLE_ARN |-> "arn:aws:role:region:account:action",
     IS_MULTI_ACCOUNT |-> "False",
     REGION |-> "us-east-1",
     ECR_REPO_ARN |-> "test-ecr-repo",
     DEV_ACCOUNT_ID |-> "dev_account_id",
     STAGING_ACCOUNT_ID |-> "staging_account_id",
     PROD_ACCOUNT_ID |-> "prod_account_id",
     DEV_ORG_ID |-> "dev_org_id",
     STAGING_ORG_ID |-> "staging_org_id",
     PROD_ORG_ID |-> "prod_org_id",
     MODELARTIFACTLOCATION |-> "model.tar.gz",
     INSTANCETYPE |-> "ml.m5.large",
     INFERENCEDATA |-> "inference/data.csv",
     BATCHOUTPUT |-> "bucket/output",
     DATACAPTURE |-> "bucket/datacapture",
     TRAININGDATA |-> "model_monitor/training-dataset-with-header.csv",
     BASELINEOUTPUT |-> "testbucket/model_monitor/baseline_output2",
     SCHEDULEEXP |-> "cron(0 * ? * * *)",
     CUSTOMIMAGE |-> "custom/custom_image.zip",
     TESTFILE |-> "testfile.zip",
     USE_MODEL_REGISTRY |-> "No",
     IS_DELEGATED_ADMIN |-> "No",
     MODEL_PACKAGE_GROUP_NAME |-> "xgboost",
     MODEL_PACKAGE_NAME |-> "arn:aws:sagemaker:*:*:model-package/xgboost/1"]

\* a value that is a str, and a value that is a dict, in the fields of an event
\* that hold one or the other
PyStr(s) == <<"str", s>>
PyDict(d) == <<"dict", d>>

PipelineTypes ==
    {"byom_realtime_builtin", "byom_batch_builtin", "byom_realtime_custom",
     "byom_batch_custom", "byom_image_builder"}

\* the map {<attribute_name>: {is_multi (True/False): <parameter-value>}}
maping ==
    [inference_instance |->
        [True |-> PyDict([dev |-> Environ["INSTANCETYPE"],
                          staging |-> Environ["INSTANCETYPE"],
                          prod |-> Environ["INSTANCETYPE"]]),
         False |-> PyStr(Environ["INSTANCETYPE"])],
     batch_job_output_location |->
        [True |-> PyDict([dev |-> "bucket/dev_output", staging |-> "bucket/staging_output",
                          prod |-> "bucket/prod_output"]),
         False |-> PyStr(Environ["BATCHOUTPUT"])],
     data_capture_location |->
        [True |-> PyDict([dev |-> "bucket/dev_datacapture",
                          staging |-> "bucket/staging_datacapture",
                          prod |-> "bucket/prod_datacapture"]),
         False |-> PyStr(Environ["DATACAPTURE"])],
     endpoint_name |->
        [True |-> PyDict([dev |-> "dev-endpoint", staging |-> "staging-endpoint",
                          prod |-> "prod-endpoint"]),
         False |-> PyStr("test-endpoint")]]

\* str() giving 'False' for either value
str_always_false(b) == "False"

\* str(is_multi)
str(b) == IF b THEN "True" ELSE "False"

api_byom_event(pipeline_type, is_multi, endpint_name_provided) ==
    LET e0 == [pipeline_type |-> pipeline_type,
               model_name |-> "testmodel",
               model_artifact_location |-> Environ["MODELARTIFACTLOCATION"],
               model_package_name |-> Environ["MODEL_PACKAGE_NAME"]]
        e1 == Put(e0, "inference_instance", maping["inference_instance"][str(is_multi)])
        e2 == IF pipeline_type \in {"byom_batch_builtin", "byom_batch_custom"}
              THEN Put(Put(e1, "batch_inference_data", Environ["INFERENCEDATA"]),
                       "batch_job_output_location",
                       maping["batch_job_output_location"][str(is_multi)])
              ELSE e1
        e3 == IF pipeline_type \in {"byom_realtime_builtin", "byom_realtime_custom"}
              THEN LET d == Put(e2, "data_capture_location",
                                maping["data_capture_location"][str(is_multi)])
                   IN IF endpint_name_provided
                      THEN Put(d, "endpoint_name", maping["endpoint_name"][str(is_multi)])
                      ELSE d
              ELSE e2
    IN IF pipeline_type \in {"byom_realtime_builtin", "byom_batch_builtin"}
       THEN Put(Put(e3, "model_framework", "xgboost"), "model_framework_version", "0.90-1")
       ELSE IF pipeline_type \in {"byom_realtime_custom", "byom_batch_custom"}
       THEN Put(e3, "custom_image_uri", "custom-image-uri")
       ELSE e3

api_data_quality_event ==
    [pipeline_type |-> "byom_data_quality_monitor",
     model_name |-> "testmodel",
     endpoint_name |-> "test_endpoint",
     baseline_data |-> Environ["TRAININGDATA"],
     baseline_job_output_location |-> Environ["BASELINEOUTPUT"],
     monitoring_output_location |-> "testbucket/model_monitor/monitor_output",
     data_capture_location |-> "testbucket/xgboost/datacapture",
     schedule_expression |-> Environ["SCHEDULEEXP"],
     instance_type |-> Environ["INSTANCETYPE"],
     instance_volume_size |-> "20",
     baseline_max_runtime_seconds |-> "3600",
     monitor_max_runtime_seconds |-> "1800"]

api_model_quality_event ==
    Update(api_data_quality_event,
           [pipeline_type |-> "byom_model_quality_monitor",
            baseline_inference_attribute |-> "0",
            problem_type |-> "Regression",
            baseline_ground_truth_attribute |-> "label",
            monitor_inference_attribute |-> "0",
            monitor_ground_truth_input |-> "s3://test-bucket/groundtruth"])

api_image_builder_event ==
    [pipeline_type |-> "byom_image_builder",
     custom_algorithm_docker |-> Environ["CUSTOMIMAGE"],
     ecr_repo_name |-> "mlops-ecrrep",
     image_tag |-> "tree"]

\* the monitoring types the fixtures are called with, and str.lower() on them
MonitoringTypes == {"", "DataQuality", "ModelQuality", "modelquality", "ModelBias"}

lower(s) ==
    CASE s = "DataQuality" -> "dataquality"
      [] s = "ModelQuality" -> "modelquality"
      [] s = "ModelBias" -> "modelbias"
      [] OTHER -> s

api_model_monitor_event(monitoring_type) ==
    LET monitor_event ==
            [pipeline_type |-> "byom_model_monitor",
             model_name |-> "mymodel2",
             endpoint_name |-> "xgb-churn-prediction-endpoint",
             training_data |-> Environ["TRAININGDATA"],
             baseline_job_output_location |-> "bucket/baseline_job_output",
             data_capture_location |-> Environ["DATACAPTURE"],
             monitoring_output_location |-> "bucket/monitoring_output",
             schedule_expression |-> Environ["SCHEDULEEXP"],
             instance_type |-> Environ["INSTANCETYPE"],
             instance_volume_size |-> "20"]
    IN IF lower(monitoring_type) # ""
          /\ lower(monitoring_type) \in {"modelquality", "modelbias", "modelexplainability"}
       THEN Put(monitor_event, "monitoring_type", lower(monitoring_type))
       ELSE monitor_event

expected_image_builder_params ==
    <<<<"NotificationEmail", Environ["NOTIFICATION_EMAIL"]>>,
      <<"AssetsBucket", "testassetsbucket">>,
      <<"CustomImage", Environ["CUSTOMIMAGE"]>>,
      <<"ECRRepoName", "mlops-ecrrep">>,
      <<"ImageTag", "tree">>>>

expect_single_account_params_format ==
    [Parameters |->
        <<<<"NotificationEmail", Environ["NOTIFICATION_EMAIL"]>>,
          <<"AssetsBucket", "testassetsbucket">>,
          <<"CustomImage", Environ["CUSTOMIMAGE"]>>,
          <<"ECRRepoName", "mlops-ecrrep">>,
          <<"ImageTag", "tree">>>>]

\* the multi-account list with the ECRRepoName entry left out
expected_multi_account_params_format_short ==
    <<[ParameterKey |-> "NotificationEmail", ParameterValue |-> Environ["NOTIFICATION_EMAIL"]],
      [ParameterKey |-> "AssetsBucket", ParameterValue |-> "testassetsbucket"],
      [ParameterKey |-> "CustomImage", ParameterValue |-> Environ["CUSTOMIMAGE"]],
      [ParameterKey |-> "ImageTag", ParameterValue |-> "tree"]>>

expected_multi_account_params_format ==
    <<[ParameterKey |-> "NotificationEmail", ParameterValue |-> Environ["NOTIFICATION_EMAIL"]],
      [ParameterKey |-> "AssetsBucket", ParameterValue |-> "testassetsbucket"],
      [ParameterKey |-> "CustomImage", ParameterValue |-> Environ["CUSTOMIMAGE"]],
      [ParameterKey |-> "ECRRepoName", ParameterValue |-> "mlops-ecrrep"],
      [ParameterKey |-> "ImageTag", ParameterValue |-> "tree"]>>

expected_params_realtime_custom(endpoint_name_provided) ==
    LET endpoint_name == IF endpoint_name_provided THEN "test-endpoint" ELSE ""
    IN <<<<"AssetsBucket", "testassetsbucket">>,
         <<"KmsKeyArn", "">>,
         <<"BlueprintBucket", "testbucket">>,
         <<"ModelName", "testmodel">>,
         <<"ModelArtifactLocation", Environ["MODELARTIFACTLOCATION"]>>,
         <<"InferenceInstance", Environ["INSTANCETYPE"]>>,
         <<"CustomAlgorithmsECRRepoArn", "test-ecr-repo">>,
         <<"ImageUri", "custom-image-uri">>,
         <<"ModelPackageGroupName", "">>,
         <<"ModelPackageName", Environ["MODEL_PACKAGE_NAME"]>>,
         <<"DataCaptureLocation", Environ["DATACAPTURE"]>>,
         <<"EndpointName", endpoint_name>>>>

expected_common_realtime_batch_params ==
    <<<<"ModelName", "testmodel">>,
      <<"ModelArtifactLocation", Environ["MODELARTIFACTLOCATION"]>>,
      <<"InferenceInstance", Environ["INSTANCETYPE"]>>,
      <<"CustomAlgorithmsECRRepoArn", "test-ecr-repo">>,
      <<"ImageUri", "custom-image-uri">>,
      <<"ModelPackageGroupName", "">>,
      <<"ModelPackageName", Environ["MODEL_PACKAGE_NAME"]>>>>

\* the realtime entries with the endpoint name given whatever the flag
expected_realtime_specific_params_named(endpoint_name_provided) ==
    <<<<"DataCaptureLocation", Environ["DATACAPTURE"]>>,
      <<"EndpointName", "test-endpoint">>>>

expected_realtime_specific_params(endpoint_name_provided) ==
    LET endpoint_name == IF endpoint_name_provided THEN "test-endpoint" ELSE ""
    IN <<<<"DataCaptureLocation", Environ["DATACAPTURE"]>>,
         <<"EndpointName", endpoint_name>>>>

expected_batch_specific_params ==
    <<<<"BatchInputBucket", "inference">>,
      <<"BatchInferenceData", Environ["INFERENCEDATA"]>>,
      <<"BatchOutputLocation", Environ["BATCHOUTPUT"]>>>>

expected_batch_params ==
    <<<<"AssetsBucket", "testassetsbucket">>,
      <<"KmsKeyArn", "">>,
      <<"BlueprintBucket", "testbucket">>,
      <<"ModelName", "testmodel">>,
      <<"ModelArtifactLocation", Environ["MODELARTIFACTLOCATION"]>>,
      <<"InferenceInstance", Environ["INSTANCETYPE"]>>,
      <<"CustomAlgorithmsECRRepoArn", "test-ecr-repo">>,
      <<"ImageUri", "custom-image-uri">>,
      <<"ModelPackageGroupName", "">>,
      <<"ModelPackageName", Environ["MODEL_PACKAGE_NAME"]>>,
      <<"BatchInputBucket", "inference">>,
      <<"BatchInferenceData", Environ["INFERENCEDATA"]>>,
      <<"BatchOutputLocation", Environ["BATCHOUTPUT"]>>>>

\* one element of a template-parameters list literal: the ParameterKey and where
\* its ParameterValue is read, os.environ[key] or event[key]
Entry(parameter_key, src, key) == [ParameterKey |-> parameter_key, src |-> src, key |-> key]

\* evaluating a list literal of such dicts against an event, element by element:
\* the first event[key] with key not in the event raises KeyError(key) and no
\* list is built
ListLiteral(event, entries) ==
    LET missing == {i \in DOMAIN entries :
                       \/ entries[i].src = "event" /\ entries[i].key \notin DOMAIN event
                       \/ entries[i].src = "environ" /\ entries[i].key \notin DOMAIN Environ}
        first == CHOOSE i \in missing : \A j \in missing : i <= j
    IN IF missing # {}
       THEN [raised |-> <<"KeyError", entries[first].key>>, out |-> <<>>]
       ELSE [raised |-> <<>>,
             out |-> [i \in DOMAIN entries |->
                         [ParameterKey |-> entries[i].ParameterKey,
                          ParameterValue |-> IF entries[i].src = "environ"
                                             THEN Environ[entries[i].key]
                                             ELSE event[entries[i].key],
                          UsePreviousValue |-> TRUE]]]

\* template_parameters = <inner fixture>(event); template_parameters.extend([...]);
\* return template_parameters
extend(template_parameters, event, entries) ==
    IF template_parameters.raised # <<>>
    THEN template_parameters
    ELSE LET more == ListLiteral(event, entries)
         IN IF more.raised # <<>>
            THEN more
            ELSE [raised |-> <<>>, out |-> template_parameters.out \o more.out]

template_parameters_common(event) ==
    ListLiteral(event,
        <<Entry("NOTIFICATIONEMAIL", "environ", "NOTIFICATION_EMAIL"),
          Entry("BLUEPRINTBUCKET", "environ", "BLUEPRINT_BUCKET"),
          Entry("ASSETSBUCKET", "environ", "ASSETS_BUCKET"),
          Entry("MODELNAME", "event", "model_name"),
          Entry("MODELARTIFACTLOCATION", "event", "model_artifact_location"),
          Entry("INFERENCEINSTANCE", "event", "inference_instance")>>)

template_parameters_realtime_builtin(event) ==
    extend(template_parameters_common(event), event,
        <<Entry("MODELFRAMEWORK", "event", "model_framework"),
          Entry("MODELFRAMEWORKVERSION", "event", "model_framework_version")>>)

template_parameters_batch_builtin(event) ==
    extend(template_parameters_realtime_builtin(event), event,
        <<Entry("BATCHINFERENCEDATA", "event", "batch_inference_data")>>)

template_parameters_realtime_custom(event) ==
    extend(template_parameters_common(event), event,
        <<Entry("CUSTOMCONTAINER", "event", "custom_model_container")>>)

template_parameters_batch_custom(event) ==
    extend(template_parameters_realtime_custom(event), event,
        <<Entry("BATCHINFERENCEDATA", "event", "batch_inference_data")>>)

\* the four BYOM pipeline types that have a template-parameters fixture
ByomTypes ==
    {"byom_realtime_builtin", "byom_batch_builtin", "byom_realtime_custom",
     "byom_batch_custom"}

UseModelRegistryValues == {"Yes", "No", "yes", ""}

\* required_api_byom_realtime_builtin with the else branch run for every value
required_api_byom_realtime_builtin_both(use_model_registry) ==
    <<"pipeline_type", "model_name", "inference_instance", "data_capture_location">>
    \o (IF use_model_registry = "Yes" THEN <<"model_package_name">> ELSE <<>>)
    \o <<"model_framework", "model_framework_version", "model_artifact_location">>

required_api_byom_realtime_builtin(use_model_registry) ==
    LET required_keys ==
            <<"pipeline_type", "model_name", "inference_instance", "data_capture_location">>
    IN IF use_model_registry = "Yes"
       THEN required_keys \o <<"model_package_name">>
       ELSE required_keys
            \o <<"model_framework", "model_framework_version", "model_artifact_location">>

required_api_byom_batch_builtin ==
    <<"pipeline_type", "model_name", "model_artifact_location", "inference_instance",
      "batch_job_output_location", "model_framework", "model_framework_version",
      "batch_inference_data">>

required_api_byom_realtime_custom ==
    <<"pipeline_type", "model_name", "model_artifact_location", "inference_instance",
      "data_capture_location", "custom_image_uri">>

required_api_byom_batch_custom ==
    <<"pipeline_type", "custom_image_uri", "model_name", "model_artifact_location",
      "inference_instance", "batch_inference_data", "batch_job_output_location">>

required_api_image_builder ==
    <<"pipeline_type", "custom_algorithm_docker", "ecr_repo_name", "image_tag">>

\* problem_type values; "None" stands for the default problem_type=None
ProblemTypes ==
    {"None", "Regression", "MulticlassClassification", "BinaryClassification"}

common_keys ==
    <<"pipeline_type", "model_name", "endpoint_name", "baseline_data",
      "baseline_job_output_location", "data_capture_location",
      "monitoring_output_location", "schedule_expression",
      "monitor_max_runtime_seconds", "instance_type", "instance_volume_size">>

\* required_api_keys_model_monitor with only 'Regression' taking the
\* monitor_inference_attribute branch
required_api_keys_model_monitor_regression_only(monitoring_type, problem_type) ==
    IF monitoring_type # "ModelQuality"
    THEN common_keys
    ELSE common_keys
         \o <<"baseline_inference_attribute", "baseline_ground_truth_attribute",
              "problem_type", "monitor_ground_truth_input">>
         \o (IF problem_type \in {"Regression"}
             THEN <<"monitor_inference_attribute">>
             ELSE <<"monitor_probability_attribute", "probability_threshold_attribute",
                    "baseline_probability_attribute">>)

required_api_keys_model_monitor(monitoring_type, problem_type) ==
    IF monitoring_type # "ModelQuality"
    THEN common_keys
    ELSE LET common_model_keys ==
                 <<"baseline_inference_attribute", "baseline_ground_truth_attribute",
                   "problem_type", "monitor_ground_truth_input">>
         IN IF problem_type \in {"Regression", "MulticlassClassification"}
            THEN common_keys \o (common_model_keys \o <<"monitor_inference_attribute">>)
            ELSE common_keys
                 \o (common_model_keys
                     \o <<"monitor_probability_attribute", "probability_threshold_attribute",
                          "baseline_probability_attribute">>)

\* a test requests a required-keys fixture
RequiredRealtimeBuiltin(use_model_registry) ==
    /\ built' = [op |-> "required", fixture |-> "required_api_byom_realtime_builtin",
                 args |-> [use_model_registry |-> use_model_registry],
                 out |-> required_api_byom_realtime_builtin(use_model_registry)]
    /\ UNCHANGED <<helperData, last, pipeline>>

RequiredFixed(fixture) ==
    /\ built' = [op |-> "required", fixture |-> fixture, args |-> EmptyDict,
                 out |-> CASE fixture = "required_api_byom_batch_builtin" ->
                                  required_api_byom_batch_builtin
                           [] fixture = "required_api_byom_realtime_custom" ->
                                  required_api_byom_realtime_custom
                           [] fixture = "required_api_byom_batch_custom" ->
                                  required_api_byom_batch_custom
                           [] fixture = "required_api_image_builder" ->
                                  required_api_image_builder]
    /\ UNCHANGED <<helperData, last, pipeline>>

RequiredModelMonitor(monitoring_type, problem_type) ==
    /\ built' = [op |-> "required", fixture |-> "required_api_keys_model_monitor",
                 args |-> [monitoring_type |-> monitoring_type,
                           problem_type |-> problem_type],
                 out |-> required_api_keys_model_monitor(monitoring_type, problem_type)]
    /\ UNCHANGED <<helperData, last, pipeline>>

\* a test requests an event fixture
ApiByomEvent(pipeline_type, is_multi, endpint_name_provided) ==
    /\ built' = [op |-> "event", fixture |-> "api_byom_event",
                 args |-> [pipeline_type |-> pipeline_type, is_multi |-> is_multi,
                           endpint_name_provided |-> endpint_name_provided],
                 out |-> api_byom_event(pipeline_type, is_multi, endpint_name_provided)]
    /\ UNCHANGED <<helperData, last, pipeline>>

ApiFixedEvent(fixture) ==
    /\ built' = [op |-> "event", fixture |-> fixture, args |-> EmptyDict,
                 out |-> CASE fixture = "api_data_quality_event" -> api_data_quality_event
                           [] fixture = "api_model_quality_event" -> api_model_quality_event
                           [] fixture = "api_image_builder_event" -> api_image_builder_event]
    /\ UNCHANGED <<helperData, last, pipeline>>

ApiModelMonitorEvent(monitoring_type) ==
    /\ built' = [op |-> "event", fixture |-> "api_model_monitor_event",
                 args |-> [monitoring_type |-> monitoring_type],
                 out |-> api_model_monitor_event(monitoring_type)]
    /\ UNCHANGED <<helperData, last, pipeline>>

\* a test requests one of the image-builder parameter fixtures
ImageBuilderParams(fixture) ==
    /\ built' = [op |-> "params", fixture |-> fixture, args |-> EmptyDict,
                 out |-> CASE fixture = "expected_image_builder_params" ->
                                  expected_image_builder_params
                           [] fixture = "expect_single_account_params_format" ->
                                  expect_single_account_params_format.Parameters
                           [] fixture = "expected_multi_account_params_format" ->
                                  [i \in DOMAIN expected_multi_account_params_format |->
                                      <<expected_multi_account_params_format[i].ParameterKey,
                                        expected_multi_account_params_format[i].ParameterValue>>]]
    /\ UNCHANGED <<helperData, last, pipeline>>

\* a test requests one of the expected-parameter lists that take no argument
ExpectedParams(fixture) ==
    /\ built' = [op |-> "expected_params", fixture |-> fixture, args |-> EmptyDict,
                 out |-> CASE fixture = "expected_common_realtime_batch_params" ->
                                  expected_common_realtime_batch_params
                           [] fixture = "expected_batch_specific_params" ->
                                  expected_batch_specific_params
                           [] fixture = "expected_batch_params" -> expected_batch_params]
    /\ UNCHANGED <<helperData, last, pipeline>>

\* a test requests one of the realtime expected-parameter lists
ExpectedRealtimeParams(fixture, endpoint_name_provided) ==
    /\ built' = [op |-> "expected_params", fixture |-> fixture,
                 args |-> [endpoint_name_provided |-> endpoint_name_provided],
                 out |-> CASE fixture = "expected_params_realtime_custom" ->
                                  expected_params_realtime_custom(endpoint_name_provided)
                           [] fixture = "expected_realtime_specific_params" ->
                                  expected_realtime_specific_params(endpoint_name_provided)]
    /\ UNCHANGED <<helperData, last, pipeline>>

\* a test applies the template-parameters fixture of a pipeline type to the
\* event api_byom_event builds for that type
TemplateParameters(pipeline_type, is_multi, endpint_name_provided) ==
    LET event == api_byom_event(pipeline_type, is_multi, endpint_name_provided)
    IN /\ built' = [op |-> "template_parameters",
                    fixture |-> CASE pipeline_type = "byom_realtime_builtin" ->
                                         "template_parameters_realtime_builtin"
                                  [] pipeline_type = "byom_batch_builtin" ->
                                         "template_parameters_batch_builtin"
                                  [] pipeline_type = "byom_realtime_custom" ->
                                         "template_parameters_realtime_custom"
                                  [] pipeline_type = "byom_batch_custom" ->
                                         "template_parameters_batch_custom",
                    args |-> [pipeline_type |-> pipeline_type, is_multi |-> is_multi,
                              endpint_name_provided |-> endpint_name_provided],
                    out |-> CASE pipeline_type = "byom_realtime_builtin" ->
                                     template_parameters_realtime_builtin(event)
                              [] pipeline_type = "byom_batch_builtin" ->
                                     template_parameters_batch_builtin(event)
                              [] pipeline_type = "byom_realtime_custom" ->
                                     template_parameters_realtime_custom(event)
                              [] pipeline_type = "byom_batch_custom" ->
                                     template_parameters_batch_custom(event)]
       /\ UNCHANGED <<helperData, last, pipeline>>

FixtureStep ==
    \/ \E u \in UseModelRegistryValues : RequiredRealtimeBuiltin(u)
    \/ \E f \in {"required_api_byom_batch_builtin", "required_api_byom_realtime_custom",
                 "required_api_byom_batch_custom", "required_api_image_builder"} :
          RequiredFixed(f)
    \/ \E mt \in MonitoringTypes, pt \in ProblemTypes : RequiredModelMonitor(mt, pt)
    \/ \E pt \in PipelineTypes, multi \in BOOLEAN, ep \in BOOLEAN : ApiByomEvent(pt, multi, ep)
    \/ \E f \in {"api_data_quality_event", "api_model_quality_event",
                 "api_image_builder_event"} : ApiFixedEvent(f)
    \/ \E mt \in MonitoringTypes : ApiModelMonitorEvent(mt)
    \/ \E f \in {"expected_image_builder_params", "expect_single_account_params_format",
                 "expected_multi_account_params_format"} : ImageBuilderParams(f)
    \/ \E f \in {"expected_common_realtime_batch_params", "expected_batch_specific_params",
                 "expected_batch_params"} : ExpectedParams(f)
    \/ \E f \in {"expected_params_realtime_custom", "expected_realtime_specific_params"},
          p \in BOOLEAN : ExpectedRealtimeParams(f, p)
    \/ \E t \in ByomTypes, m \in BOOLEAN, p \in BOOLEAN : TemplateParameters(t, m, p)

(***************************************************************************)
(* Pipeline-definition factories: iam_policies.py and deploy_actions.py     *)
(* An ARN is a tuple of its parts: <<"sagemaker", "model", n>> stands for   *)
(* f"{sagemaker_arn_prefix}:model/{n}", <<"s3", p>> for f"arn:aws:s3:::{p}", *)
(* <<"role_arn", id>> for the role_arn token of the role with that id.      *)
(* CloudFormation parameters and conditions carry their deploy-time value.  *)
(***************************************************************************)
PolicyStatement(actions, resources) == [actions |-> actions, resources |-> resources]

\* core.Fn.condition_if(condition, value_if_true, value_if_false), resolved
condition_if(condition, value_if_true, value_if_false) ==
    IF condition THEN value_if_true ELSE value_if_false

\* sagemaker_policy_statement with the two branches of condition_if exchanged
sagemaker_policy_statement_swapped(is_realtime_pipeline, endpoint_name, endpoint_name_provided) ==
    LET actions == <<"sagemaker:CreateModel", "sagemaker:DescribeModel",
                     "sagemaker:DeleteModel">>
        resources == <<<<"sagemaker", "model", "mlopssagemakermodel*">>>>
    IN IF is_realtime_pipeline
       THEN LET endpoint == condition_if(endpoint_name_provided, "mlopssagemakerendpoint*",
                                         endpoint_name)
            IN PolicyStatement(
                   actions \o <<"sagemaker:CreateEndpointConfig",
                                "sagemaker:DescribeEndpointConfig",
                                "sagemaker:DeleteEndpointConfig",
                                "sagemaker:CreateEndpoint",
                                "sagemaker:DescribeEndpoint",
                                "sagemaker:DeleteEndpoint">>,
                   resources \o <<<<"sagemaker", "endpoint-config",
                                    "mlopssagemakerendpointconfig*">>,
                                  <<"sagemaker", "endpoint", endpoint>>>>)
       ELSE PolicyStatement(actions, resources)

sagemaker_policy_statement(is_realtime_pipeline, endpoint_name, endpoint_name_provided) ==
    LET actions == <<"sagemaker:CreateModel", "sagemaker:DescribeModel",
                     "sagemaker:DeleteModel">>
        resources == <<<<"sagemaker", "model", "mlopssagemakermodel*">>>>
    IN IF is_realtime_pipeline
       THEN LET endpoint == condition_if(endpoint_name_provided, endpoint_name,
                                         "mlopssagemakerendpoint*")
            IN PolicyStatement(
                   actions \o <<"sagemaker:CreateEndpointConfig",
                                "sagemaker:DescribeEndpointConfig",
                                "sagemaker:DeleteEndpointConfig",
                                "sagemaker:CreateEndpoint",
                                "sagemaker:DescribeEndpoint",
                                "sagemaker:DeleteEndpoint">>,
                   resources \o <<<<"sagemaker", "endpoint-config",
                                    "mlopssagemakerendpointconfig*">>,
                                  <<"sagemaker", "endpoint", endpoint>>>>)
       ELSE PolicyStatement(actions, resources)

\* the baseline-job statement granted on every processing job
sagemaker_baseline_job_policy_any(baseline_job_name) ==
    PolicyStatement(<<"sagemaker:CreateProcessingJob", "sagemaker:DescribeProcessingJob",
                      "sagemaker:StopProcessingJob", "sagemaker:DeleteProcessingJob">>,
                    <<<<"sagemaker", "processing-job", "*">>>>)

sagemaker_baseline_job_policy(baseline_job_name) ==
    PolicyStatement(<<"sagemaker:CreateProcessingJob", "sagemaker:DescribeProcessingJob",
                      "sagemaker:StopProcessingJob", "sagemaker:DeleteProcessingJob">>,
                    <<<<"sagemaker", "processing-job", baseline_job_name>>>>)

\* iam.Role(scope, id, assumed_by=ServicePrincipal(service)): no statement
\* and no attached policy yet
create_service_role(id, service) ==
    [id |-> id, assumed_by |-> service, statements |-> <<>>, attached |-> <<>>]

role_arn(role) == <<"role_arn", role.id>>

\* role.add_to_policy(statement) and policy.attach_to_role(role)
add_to_policy(role, statement) ==
    [role EXCEPT !.statements = Append(@, statement)]

attach_to_role(policy, role) == [role EXCEPT !.attached = Append(@, policy.id)]

sagemaker_logs_metrics_policy_document(id) ==
    [id |-> id,
     statements |-> <<PolicyStatement(<<"logs:CreateLogGroup", "logs:CreateLogStream",
                                        "logs:DescribeLogStreams", "logs:GetLogEvents",
                                        "logs:PutLogEvents">>,
                                      <<<<"logs", "log-group:/aws/sagemaker/*">>>>),
                      PolicyStatement(<<"cloudwatch:PutMetricData">>, <<<<"*">>>>)>>,
     condition |-> <<>>]

s3_policy_read(resources_list) ==
    PolicyStatement(<<"s3:GetObject", "s3:ListBucket">>, resources_list)

s3_policy_write(resources_list) == PolicyStatement(<<"s3:PutObject">>, resources_list)

kms_policy_document(id, kms_key_arn) ==
    [id |-> id,
     statements |-> <<PolicyStatement(<<"kms:Encrypt", "kms:Decrypt", "kms:CreateGrant",
                                        "kms:ReEncrypt*", "kms:GenerateDataKey*",
                                        "kms:DescribeKey">>,
                                      <<kms_key_arn>>)>>,
     condition |-> <<>>]

\* core.Aspects.of(policy).add(ConditionalResources(condition)): the policy is
\* created only when the condition holds
ConditionalResources(policy, condition) == [policy EXCEPT !.condition = <<condition>>]

\* helpers.add_logs_policy(function_role)
add_logs_policy(function_role) ==
    add_to_policy(
        add_to_policy(function_role,
                      PolicyStatement(<<"logs:CreateLogStream", "logs:PutLogEvents">>,
                                      <<<<"logs", "log-group:/aws/lambda/*">>,
                                        <<"logs", "log-group:*:log-stream:*">>>>)),
        PolicyStatement(<<"logs:CreateLogGroup">>, <<<<"logs", "*">>>>))

\* the arguments create_baseline_job_lambda is called with; "None" stands for
\* an argument left at its default None
BaselineArgs ==
    [monitoring_type : {"DataQuality", "ModelQuality", "modelquality"},
     baseline_job_name : {"baseline-job-a", "baseline-job-b"},
     kms_key_arn_provided_condition : BOOLEAN,
     problem_type : {"None", "Regression", "BinaryClassification",
                     "MulticlassClassification"},
     assets_bucket : {[bucket_name |-> "assets-bucket"]},
     baseline_data_location : {"data/baseline.csv"},
     baseline_job_output_location : {"assets-bucket/baseline-output"},
     endpoint_name : {"my-endpoint"},
     instance_type : {"ml.m5.large"},
     instance_volume_size : {"20"},
     max_runtime_seconds : {"3600"},
     kms_key_arn : {<<"kms", "key/1234">>},
     stack_name : {"monitor-stack"},
     ground_truth_attribute : {"label"},
     inference_attribute : {"prediction"},
     probability_attribute : {"probability"},
     probability_threshold_attribute : {"0.5"}]

\* the thirteen environment variables of the baseline Lambda
base_environment_variables(a, sagemaker_role) ==
    [MONITORING_TYPE |-> a.monitoring_type,
     BASELINE_JOB_NAME |-> a.baseline_job_name,
     ASSETS_BUCKET |-> a.assets_bucket.bucket_name,
     SAGEMAKER_ENDPOINT_NAME |-> a.endpoint_name,
     BASELINE_DATA_LOCATION |-> a.baseline_data_location,
     BASELINE_JOB_OUTPUT_LOCATION |-> a.baseline_job_output_location,
     INSTANCE_TYPE |-> a.instance_type,
     INSTANCE_VOLUME_SIZE |-> a.instance_volume_size,
     MAX_RUNTIME_SECONDS |-> a.max_runtime_seconds,
     ROLE_ARN |-> role_arn(sagemaker_role),
     KMS_KEY_ARN |-> a.kms_key_arn,
     STACK_NAME |-> a.stack_name,
     LOG_LEVEL |-> "INFO"]

model_quality_variables(a) ==
    [PROBLEM_TYPE |-> a.problem_type,
     GROUND_TRUTH_ATTRIBUTE |-> a.ground_truth_attribute,
     INFERENCE_ATTRIBUTE |-> a.inference_attribute,
     PROBABILITY_ATTRIBUTE |-> a.probability_attribute,
     PROBABILITY_THRESHOLD_ATTRIBUTE |-> a.probability_threshold_attribute]

\* the environment with the ModelQuality variables added whatever the case of
\* monitoring_type
lambda_environment_variables_anycase(a, sagemaker_role) ==
    IF lower(a.monitoring_type) = "modelquality"
    THEN Update(base_environment_variables(a, sagemaker_role), model_quality_variables(a))
    ELSE base_environment_variables(a, sagemaker_role)

lambda_environment_variables(a, sagemaker_role) ==
    IF a.monitoring_type = "ModelQuality"
    THEN Update(base_environment_variables(a, sagemaker_role), model_quality_variables(a))
    ELSE base_environment_variables(a, sagemaker_role)

\* create_baseline_job_lambda(scope, ...): the Lambda function with its
\* environment and role, the SageMaker role and the policies created
create_baseline_job_lambda(a) ==
    LET s3_read == s3_policy_read(
                       <<<<"s3", a.assets_bucket.bucket_name>>,
                         <<"s3", a.assets_bucket.bucket_name, a.baseline_data_location>>>>)
        s3_write == s3_policy_write(<<<<"s3", a.baseline_job_output_location, "*">>>>)
        create_baseline_job_policy == sagemaker_baseline_job_policy(a.baseline_job_name)
        sagemaker_logs_policy == sagemaker_logs_metrics_policy_document("BaselineLogsMetrics")
        kms_policy == ConditionalResources(
                          kms_policy_document("BaselineKmsPolicy", a.kms_key_arn),
                          a.kms_key_arn_provided_condition)
        role0 == create_service_role("create_baseline_sagemaker_role",
                                     "sagemaker.amazonaws.com")
        role1 == attach_to_role(kms_policy, role0)
        role2 == add_to_policy(role1, PolicyStatement(<<"sts:AssumeRole">>,
                                                      <<role_arn(role0)>>))
        lrole0 == create_service_role("create_baseline_job_lambda_role",
                                      "lambda.amazonaws.com")
        role3 == attach_to_role(sagemaker_logs_policy, role2)
        sagemaker_role ==
            add_to_policy(add_to_policy(add_to_policy(role3, create_baseline_job_policy),
                                        s3_read),
                          s3_write)
        lrole1 == add_to_policy(lrole0, PolicyStatement(<<"iam:PassRole">>,
                                                        <<role_arn(sagemaker_role)>>))
        lambda_role ==
            add_logs_policy(
                add_to_policy(add_to_policy(add_to_policy(lrole1, create_baseline_job_policy),
                                            s3_write),
                              s3_read))
    IN [function |-> [id |-> "create_data_baseline_job",
                      handler |-> "main.handler",
                      role |-> lambda_role.id,
                      code |-> "blueprints/byom/lambdas/create_baseline_job.zip",
                      environment |-> lambda_environment_variables(a, sagemaker_role)],
        sagemaker_role |-> sagemaker_role,
        lambda_role |-> lambda_role,
        policies |-> <<kms_policy, sagemaker_logs_policy>>]

\* A CloudFormation ARN is <<"cloudformation", region, account, kind, name>>:
\* <<"cloudformation", r, a, "stackset", n>> stands for
\* f"arn:aws:cloudformation:{r}:{a}:stackset/{n}:*", and the kind
\* "type/resource" with name "*" for ".../type/resource/*"
cloudformation_stackset_policy(stack_name, account_id) ==
    PolicyStatement(<<"cloudformation:DescribeStackSet",
                      "cloudformation:DescribeStackInstance",
                      "cloudformation:CreateStackSet">>,
                    <<<<"cloudformation", "AWS::Region", account_id, "stackset", stack_name>>,
                      <<"cloudformation", "*", "", "type/resource", "*">>>>)

cloudformation_stackset_instances_policy(stack_name, account_id) ==
    PolicyStatement(<<"cloudformation:CreateStackInstances",
                      "cloudformation:DeleteStackInstances",
                      "cloudformation:UpdateStackSet">>,
                    <<<<"cloudformation", "", account_id, "stackset-target", stack_name>>,
                      <<"cloudformation", "AWS::Region", "", "type/resource", "*">>,
                      <<"cloudformation", "AWS::Region", account_id, "stackset", stack_name>>>>)

delegated_admin_policy_document(id) ==
    [id |-> id,
     statements |-> <<PolicyStatement(<<"organizations:ListDelegatedAdministrators">>,
                                      <<<<"*">>>>)>>,
     condition |-> <<>>]

\* the arguments create_stackset_action is called with; aws_account_id is the
\* deploy-time value of core.Aws.ACCOUNT_ID
StacksetArgs ==
    [action_name : {"DeployDevStackSet", "DeployStagingStackSet"},
     stack_name : {"mlops-stackset"},
     delegated_admin_condition : BOOLEAN,
     aws_account_id : {"111111111111", "222222222222"},
     source_output : {"source-output"},
     artifact : {"SourceArtifact"},
     template_file : {"template.yaml"},
     stage_params_file : {"dev-params.json"},
     account_ids : {<<"333333333333">>},
     org_ids : {<<"ou-dev">>},
     regions : {<<"us-east-1">>}]

\* the environment of the StackSet Lambda with CALL_AS fixed to 'SELF'
stackset_lambda_environment_self(delegated_admin_condition) == [CALL_AS |-> "SELF"]

\* environment={"CALL_AS": core.Fn.condition_if(..., "DELEGATED_ADMIN", "SELF")}
stackset_lambda_environment(delegated_admin_condition) ==
    [CALL_AS |-> condition_if(delegated_admin_condition, "DELEGATED_ADMIN", "SELF")]

\* create_stackset_action(scope, ...): the Lambda function with its environment,
\* its role, the policies created and the LambdaInvokeAction
create_stackset_action(a) ==
    LET lrole0 == create_service_role(<<a.action_name, "_role">>, "lambda.amazonaws.com")
        account_id == condition_if(a.delegated_admin_condition, "*", a.aws_account_id)
        cloudformation_stackset_permissions ==
            cloudformation_stackset_policy(a.stack_name, account_id)
        cloudformation_stackset_instances_permissions ==
            cloudformation_stackset_instances_policy(a.stack_name, account_id)
        lrole1 == add_logs_policy(
                      add_to_policy(add_to_policy(lrole0, cloudformation_stackset_permissions),
                                    cloudformation_stackset_instances_permissions))
        delegated_admin_policy ==
            ConditionalResources(
                delegated_admin_policy_document(<<a.action_name, "DelegatedAdminPolicy">>),
                a.delegated_admin_condition)
        lambda_role == attach_to_role(delegated_admin_policy, lrole1)
    IN [function |-> [id |-> <<a.action_name, "_stackset_lambda">>,
                      handler |-> "main.lambda_handler",
                      role |-> lambda_role.id,
                      code |-> "blueprints/byom/lambdas/create_update_cf_stackset.zip",
                      environment |-> stackset_lambda_environment(a.delegated_admin_condition)],
        lambda_role |-> lambda_role,
        policies |-> <<delegated_admin_policy>>,
        action |-> [action_name |-> a.action_name,
                    inputs |-> <<a.source_output>>,
                    variables_namespace |-> <<a.action_name, "-namespace">>,
                    lambda_ |-> <<a.action_name, "_stackset_lambda">>,
                    user_parameters |-> [stackset_name |-> a.stack_name,
                                         artifact |-> a.artifact,
                                         template_file |-> a.template_file,
                                         stage_params_file |-> a.stage_params_file,
                                         account_ids |-> a.account_ids,
                                         org_ids |-> a.org_ids,
                                         regions |-> a.regions],
                    run_order |-> 1]]

\* a stack definition asks for the SageMaker policy statement
SagemakerPolicyStatement(is_realtime_pipeline, endpoint_name, endpoint_name_provided) ==
    /\ built' = [op |-> "sagemaker_policy_statement", fixture |-> "",
                 args |-> [is_realtime_pipeline |-> is_realtime_pipeline,
                           endpoint_name |-> endpoint_name,
                           endpoint_name_provided |-> endpoint_name_provided],
                 out |-> sagemaker_policy_statement(is_realtime_pipeline, endpoint_name,
                                                    endpoint_name_provided)]
    /\ UNCHANGED <<helperData, last, pipeline>>

\* a stack definition creates the baseline-job Lambda
CreateBaselineJobLambda(a) ==
    /\ built' = [op |-> "create_baseline_job_lambda", fixture |-> "", args |-> a,
                 out |-> create_baseline_job_lambda(a)]
    /\ UNCHANGED <<helperData, last, pipeline>>

\* a multi-account stack definition creates a StackSet deploy action
CreateStacksetAction(a) ==
    /\ built' = [op |-> "create_stackset_action", fixture |-> "", args |-> a,
                 out |-> create_stackset_action(a)]
    /\ UNCHANGED <<helperData, last, pipeline>>

\* the endpoint names a user may give the template
UserEndpointNames == {"my-endpoint", "churn-endpoint"}

FactoryStep ==
    \/ \E rt \in BOOLEAN, n \in UserEndpointNames, p \in BOOLEAN :
          SagemakerPolicyStatement(rt, n, p)
    \/ \E a \in BaselineArgs : CreateBaselineJobLambda(a)
    \/ \E a \in StacksetArgs : CreateStacksetAction(a)

(***************************************************************************)
(* Loading the pipeline-definition modules: the import statements at the    *)
(* top of byom_custom_algorithm_image_builder.py, deploy_actions.py,        *)
(* iam_policies.py and helpers.py, and the names each module binds.  A      *)
(* module is named by the last part of its dotted name.                     *)
(***************************************************************************)
\* the modules whose source is followed; every other module is taken as
\* loaded, with whatever name is asked of it
SrcModules ==
    {"byom_custom_algorithm_image_builder", "deploy_actions", "iam_policies", "helpers"}

FromImport(module, names) == [module |-> module, names |-> names]

image_builder_imports ==
    <<FromImport("aws_cdk", <<"aws_iam", "aws_s3", "aws_sns", "aws_sns_subscriptions",
                              "aws_events_targets", "aws_events", "aws_codepipeline",
                              "core">>),
      FromImport("source_actions", <<"source_action_custom">>),
      FromImport("build_actions", <<"build_action">>),
      FromImport("helpers", <<"pipeline_permissions", "suppress_pipeline_bucket",
                              "suppress_iam_complex", "suppress_sns">>),
      FromImport("templates_parameters",
                 <<"create_notification_email_parameter",
                   "create_assets_bucket_name_parameter",
                   "create_custom_container_parameter",
                   "create_ecr_repo_name_parameter",
                   "create_image_tag_parameter">>)>>

deploy_actions_imports ==
    <<FromImport("aws_cdk", <<"aws_iam", "aws_lambda", "aws_codepipeline_actions",
                              "aws_cloudformation", "core">>),
      FromImport("helpers", <<"suppress_lambda_policies", "suppress_pipeline_policy",
                              "add_logs_policy">>),
      FromImport("conditional_resource", <<"ConditionalResources">>),
      FromImport("cdk_context_value", <<"get_cdk_context_value">>),
      FromImport("iam_policies",
                 <<"create_service_role", "sagemaker_baseline_job_policy",
                   "sagemaker_logs_metrics_policy_document", "batch_transform_policy",
                   "s3_policy_write", "s3_policy_read", "cloudformation_stackset_policy",
                   "cloudformation_stackset_instances_policy", "kms_policy_document",
                   "delegated_admin_policy_document">>)>>

iam_policies_imports ==
    <<FromImport("aws_cdk", <<"aws_iam", "core">>),
      FromImport("helpers", <<"suppress_ecr_policy", "suppress_cloudwatch_policy",
                              "suppress_delegated_admin_policy">>)>>

\* helpers importing from deploy_actions as well
helpers_imports_feedback ==
    <<FromImport("aws_cdk", <<"aws_iam", "core">>),
      FromImport("deploy_actions", <<"create_stackset_action">>)>>

helpers_imports == <<FromImport("aws_cdk", <<"aws_iam", "core">>)>>

FromImports ==
    [byom_custom_algorithm_image_builder |-> image_builder_imports,
     deploy_actions |-> deploy_actions_imports,
     iam_policies |-> iam_policies_imports,
     helpers |-> helpers_imports]

\* the names a module binds at its top level once it has run
Defines ==
    [byom_custom_algorithm_image_builder |-> {"BYOMCustomAlgorithmImageBuilderStack"},
     deploy_actions |->
        {"lambda_service", "lambda_handler", "sagemaker_layer", "batch_transform",
         "create_baseline_job_lambda", "create_stackset_action",
         "create_cloudformation_action", "create_invoke_lambda_custom_resource",
         "create_copy_assets_lambda", "create_solution_helper",
         "create_uuid_custom_resource", "create_send_data_custom_resource"},
     iam_policies |->
        {"sagemaker_arn_prefix", "sagemaker_policy_statement",
         "sagemaker_baseline_job_policy", "batch_transform_policy", "create_service_role",
         "sagemaker_monitor_policy_statement", "sagemaker_tags_policy_statement",
         "sagemaker_logs_metrics_policy_document", "s3_policy_read_write",
         "s3_policy_read", "create_ecr_repo_policy", "s3_policy_write",
         "pass_role_policy_statement", "get_role_policy_statement", "ecr_policy_document",
         "kms_policy_document", "get_model_registry_actions_resources",
         "model_registry_policy_statement", "model_registry_policy_document",
         "model_package_group_policy", "cloudformation_stackset_policy",
         "cloudformation_stackset_instances_policy", "delegated_admin_policy_document",
         "create_orchestrator_policy", "create_invoke_lambda_policy"},
     helpers |->
        {"pipeline_permissions", "codepipeline_policy", "add_logs_policy",
         "suppress_cloudwatch_policy", "suppress_pipeline_policy",
         "suppress_list_function_policy", "suppress_s3_access_policy",
         "suppress_assets_bucket", "suppress_pipeline_bucket", "suppress_iam_complex",
         "suppress_sns", "suppress_ecr_policy", "apply_secure_bucket_policy"}]

\* the interpreter before anything is imported: the modules that have run (in
\* the order they finished), the modules that are running their imports, the
\* ImportError raised (none: <<>>) and whether a module was imported while it
\* was still running its own imports
FreshInterpreter == [loaded |-> <<>>, loading |-> <<>>, raised |-> <<>>, circular |-> FALSE]

\* the names of `names` that `module` cannot give to an importer: a module of
\* the sources gives the names it defines once it has run, and none while it
\* is still running its imports (every def follows the imports)
MissingNames(module, names, st) ==
    IF module \notin SrcModules THEN <<>>
    ELSE SelectSeq(names, LAMBDA n : \/ module \notin Range(st.loaded)
                                     \/ n \notin Defines[module])

RECURSIVE LoadModule(_, _)
RECURSIVE RunImports(_, _, _)

\* import of module m: nothing when it is in sys.modules already, else run
\* its import statements in order and then its definitions
LoadModule(m, st) ==
    IF st.raised # <<>> THEN st
    ELSE IF m \in Range(st.loaded) THEN st
    ELSE IF m \in Range(st.loading) THEN [st EXCEPT !.circular = TRUE]
    ELSE IF m \notin SrcModules THEN [st EXCEPT !.loaded = Append(@, m)]
    ELSE LET st1 == RunImports(m, 1, [st EXCEPT !.loading = Append(@, m)])
         IN IF st1.raised # <<>> THEN st1
            ELSE [st1 EXCEPT !.loading = SubSeq(@, 1, Len(@) - 1),
                             !.loaded = Append(@, m)]

\* the import statements of m from the i-th on: load the module named, then
\* bind the names asked for; a name the module does not have raises ImportError
RunImports(m, i, st) ==
    IF st.raised # <<>> \/ i > Len(FromImports[m]) THEN st
    ELSE LET imp == FromImports[m][i]
             st1 == LoadModule(imp.module, st)
             missing == MissingNames(imp.module, imp.names, st1)
         IN IF st1.raised # <<>> THEN st1
            ELSE IF missing # <<>>
            THEN [st1 EXCEPT !.raised = <<[error |-> "ImportError", importer |-> m,
                                           module |-> imp.module, name |-> missing[1]]>>]
            ELSE RunImports(m, i + 1, st1)

import_module(m) == LoadModule(m, FreshInterpreter)

\* a fresh interpreter imports one of the modules
ImportModule(m) ==
    /\ built' = [op |-> "import", fixture |-> m, args |-> EmptyDict,
                 out |-> import_module(m)]
    /\ UNCHANGED <<helperData, last, pipeline>>

LoadStep == \E m \in SrcModules : ImportModule(m)

(***************************************************************************)
(* Image-builder stack: lib/blueprints/byom/                                *)
(* byom_custom_algorithm_image_builder.py.  The stack declares a pipeline   *)
(* of stages, a notification topic and an event rule; CodePipeline runs the *)
(* declared stages in their order and emits state-change events, and        *)
(* EventBridge hands every event a rule matches to the rule's target.       *)
(***************************************************************************)
\* how many executions of the pipeline are followed
MaxExecutions == 2

Executions == 1..MaxExecutions

\* values of the NotificationEmail parameter of the template
NotificationEmails == {"ops@example.com", "ml@example.com"}

\* pipeline.on_event(id, target, event_pattern): a rule on every event of the
\* pipeline (execution, stage and action state changes alike)
on_state_change_every_event(id, target, message, event_pattern) ==
    [id |-> id, source |-> "aws.codepipeline", detail_type |-> <<>>,
     detail |-> event_pattern.detail, target |-> target, message |-> message]

\* pipeline.on_state_change(id, target=, event_pattern=): a rule on the
\* pipeline's execution state change events, narrowed by event_pattern
on_state_change(id, target, message, event_pattern) ==
    [id |-> id, source |-> "aws.codepipeline",
     detail_type |-> <<"CodePipeline Pipeline Execution State Change">>,
     detail |-> event_pattern.detail, target |-> target, message |-> message]

\* BYOMCustomAlgorithmImageBuilderStack.__init__: the resources the stack
\* declares, with the NotificationEmail parameter at its deploy-time value
BYOMCustomAlgorithmImageBuilderStack(notification_email) ==
    LET source_action_definition ==
            [factory |-> "source_action_custom", inputs |-> <<>>,
             outputs |-> <<"source_output">>]
        build_action_definition ==
            [factory |-> "build_action", inputs |-> <<"source_output">>, outputs |-> <<>>]
        pipeline_notification_topic ==
            [id |-> "PipelineNotification",
             subscriptions |-> <<[protocol |-> "email", endpoint |-> notification_email]>>]
        source_stage == [stage_name |-> "Source", actions |-> <<source_action_definition>>]
        build_stage == [stage_name |-> "Build", actions |-> <<build_action_definition>>]
        image_builder_pipeline ==
            [id |-> "BYOMPipelineReatimeBuild", stages |-> <<source_stage, build_stage>>,
             cross_account_keys |-> FALSE]
    IN [pipeline |-> image_builder_pipeline,
        topics |-> <<pipeline_notification_topic>>,
        rules |-> <<on_state_change(
                        "NotifyUser", pipeline_notification_topic.id,
                        <<"Pipeline ", "$.detail.pipeline", " finished executing. ",
                          "Pipeline execution result is ", "$.detail.state">>,
                        [detail |-> [state |-> <<"SUCCEEDED", "FAILED">>]])>>]

\* an execution that has not been started
NotStarted == [state |-> "NotStarted", stage |-> 0, started |-> <<>>]

\* no stack deployed yet
NoPipeline ==
    [stack |-> <<>>, executions |-> [e \in Executions |-> NotStarted], bus |-> {},
     published |-> {}]

\* the events CodePipeline puts on the event bus that the model follows: the
\* end of a stage that is not the last, a failed stage, and an execution that
\* succeeded, failed or was stopped
ExecutionEvent(e, state) ==
    [detail_type |-> "CodePipeline Pipeline Execution State Change", execution |-> e,
     stage |-> "", state |-> state]

StageEvent(e, stage_name, state) ==
    [detail_type |-> "CodePipeline Stage Execution State Change", execution |-> e,
     stage |-> stage_name, state |-> state]

\* the names of the actions of a stage, in their order
ActionsOf(stage) == [i \in DOMAIN stage.actions |-> stage.actions[i].factory]

\* an event matches a rule when its detail-type is one the rule names (any,
\* when the rule names none) and its state is one of the pattern's states
rule_matches(rule, ev) ==
    /\ rule.detail_type = <<>> \/ ev.detail_type \in Range(rule.detail_type)
    /\ ev.state \in Range(rule.detail.state)

\* RuleTargetInput.from_text: the message with the event's fields filled in
message_text(rule, ev, pipeline_id) ==
    [i \in DOMAIN rule.message |->
        IF rule.message[i] = "$.detail.pipeline" THEN pipeline_id
        ELSE IF rule.message[i] = "$.detail.state" THEN ev.state
        ELSE rule.message[i]]

\* the stack is created from the template
DeployStack(notification_email) ==
    /\ pipeline.stack = <<>>
    /\ pipeline' = [pipeline EXCEPT
                      !.stack = <<BYOMCustomAlgorithmImageBuilderStack(notification_email)>>]
    /\ UNCHANGED <<helperData, last, built>>

\* an execution starts: it enters the first declared stage
StartExecution(e) ==
    /\ pipeline.stack # <<>>
    /\ pipeline.executions[e].state = "NotStarted"
    /\ LET stages == pipeline.stack[1].pipeline.stages
       IN pipeline' = [pipeline EXCEPT
                         !.executions[e] = [state |-> "InProgress", stage |-> 1,
                                            started |-> ActionsOf(stages[1])]]
    /\ UNCHANGED <<helperData, last, built>>

\* the actions of the execution's stage succeed: the execution enters the
\* next declared stage, or succeeds after the last one
StageSucceeded(e) ==
    /\ pipeline.stack # <<>>
    /\ pipeline.executions[e].state = "InProgress"
    /\ LET stages == pipeline.stack[1].pipeline.stages
           x == pipeline.executions[e]
       IN IF x.stage < Len(stages)
          THEN pipeline' = [pipeline EXCEPT
                              !.executions[e] =
                                  [x EXCEPT !.stage = @ + 1,
                                            !.started = @ \o ActionsOf(stages[x.stage + 1])],
                              !.bus = @ \cup {StageEvent(e, stages[x.stage].stage_name,
                                                         "SUCCEEDED")}]
          ELSE pipeline' = [pipeline EXCEPT
                              !.executions[e] = [x EXCEPT !.state = "SUCCEEDED"],
                              !.bus = @ \cup {ExecutionEvent(e, "SUCCEEDED")}]
    /\ UNCHANGED <<helperData, last, built>>

\* an action of the execution's stage fails: the execution fails
StageFailed(e) ==
    /\ pipeline.stack # <<>>
    /\ pipeline.executions[e].state = "InProgress"
    /\ LET stages == pipeline.stack[1].pipeline.stages
           x == pipeline.executions[e]
       IN pipeline' = [pipeline EXCEPT
                         !.executions[e] = [x EXCEPT !.state = "FAILED"],
                         !.bus = @ \cup {StageEvent(e, stages[x.stage].stage_name, "FAILED"),
                                         ExecutionEvent(e, "FAILED")}]
    /\ UNCHANGED <<helperData, last, built>>

\* the execution is stopped by its operator
StopExecution(e) ==
    /\ pipeline.stack # <<>>
    /\ pipeline.executions[e].state = "InProgress"
    /\ pipeline' = [pipeline EXCEPT
                      !.executions[e] = [@ EXCEPT !.state = "STOPPED"],
                      !.bus = @ \cup {ExecutionEvent(e, "STOPPED")}]
    /\ UNCHANGED <<helperData, last, built>>

\* EventBridge takes an event from the bus and hands it to the target of
\* every rule it matches: the SNS topic publishes the rule's message
Deliver(ev) ==
    /\ pipeline.stack # <<>>
    /\ ev \in pipeline.bus
    /\ LET stack == pipeline.stack[1]
       IN pipeline' = [pipeline EXCEPT
                         !.bus = @ \ {ev},
                         !.published = @ \cup
                             {[topic |-> stack.rules[i].target, execution |-> ev.execution,
                               text |-> message_text(stack.rules[i], ev, stack.pipeline.id)] :
                                  i \in {j \in DOMAIN stack.rules :
                                            rule_matches(stack.rules[j], ev)}}]
    /\ UNCHANGED <<helperData, last, built>>

DeliverStep == \E ev \in pipeline.bus : Deliver(ev)

NextPipeline ==
    \/ \E m \in NotificationEmails : DeployStack(m)
    \/ \E e \in Executions : StartExecution(e)
    \/ \E e \in Executions : StageSucceeded(e)
    \/ \E e \in Executions : StageFailed(e)
    \/ \E e \in Executions : StopExecution(e)
    \/ DeliverStep

(***************************************************************************)
(* Specifications of the two Lambdas                                       *)
(***************************************************************************)
InferenceStep(C, bodies) ==
    \E c \in C, b \in bodies, e \in EndpointNames, sm \in SmOutcomes :
        InferenceHandler(c, b, e, sm)

HelperStep(C, events) ==
    \E c \in C, ev \in events, u \in FreshUUIDs, t \in Timestamps, h \in HttpOutcomes :
        SolutionHelperHandler(c, ev, u, t, h)

Init ==
    /\ helperData = [c \in Containers |-> EmptyDict]
    /\ last = [c \in Containers |-> NoInvocation]
    /\ built = NoCall
    /\ pipeline = NoPipeline

\* one deployment serving every request
Next ==
    \/ InferenceStep({"d1"}, WellFormedBodies)
    \/ HelperStep({"d1"}, HelperEvents)

Spec == Init /\ [][Next]_vars

\* two deployments, each with its own history of requests
PairBodies ==
    {b \in WellFormedBodies :
        /\ "ContentType" \in DOMAIN b /\ b["ContentType"] = "text/csv"
        /\ "payload" \in DOMAIN b => b["payload"] = "1,2,3"}

PairEvents ==
    {ev \in HelperEvents :
        \/ ev.ResourceProperties \in UUIDProps
           /\ ev.ResourceProperties["CreateModelRegistry"] = "Yes"
        \/ ev.ResourceProperties \in OtherProps
           /\ "Resource" \in DOMAIN ev.ResourceProperties
        \/ ev.ResourceProperties \in MetricProps
           /\ ev.ResourceProperties["gitSelected"] = ""
           /\ ev.ResourceProperties["bucketSelected"] = "bucket"}

NextPair ==
    \/ InferenceStep(Containers, PairBodies)
    \/ HelperStep(Containers, PairEvents)

SpecPair == Init /\ [][NextPair]_vars

\* the fixtures and the pipeline-definition factories, called in any order,
\* and the pipeline-definition modules loaded
NextBuild ==
    \/ FixtureStep
    \/ FactoryStep
    \/ LoadStep

SpecBuild == Init /\ [][NextBuild]_vars

\* the image-builder stack deployed and its pipeline run; EventBridge
\* delivers every event that stays on the bus
SpecPipeline == Init /\ [][NextPipeline]_vars /\ WF_vars(DeliverStep)

(***************************************************************************)
(* Properties of the Lambda handlers                                       *)
(***************************************************************************)
HasBothKeys(inv) == {"payload", "ContentType"} \subseteq DOMAIN inv.event

ForwardedCall(inv) ==
    [EndpointName |-> inv.env, Body |-> inv.event["payload"],
     ContentType |-> inv.event["ContentType"]]

\* the text Python's bytes.decode() gives for the response bodies of the model
\* that are valid UTF-8: "" , "0." and "\u00e9"
ExpectedText(bytes) ==
    IF bytes = <<>> THEN <<TRUE, <<>>>>
    ELSE IF bytes = <<48, 46>> THEN <<TRUE, <<48, 46>>>>
    ELSE IF bytes = <<195, 169>> THEN <<TRUE, <<233>>>>
    ELSE <<FALSE, <<>>>>

SuccessResponse(text) ==
    <<[statusCode |-> 200, isBase64Encoded |-> FALSE, body |-> text,
       headers |-> ("Content-Type" :> "plain/text")]>>

C2_NoRetries ==
    \A c \in Containers :
        /\ Len(last[c].smCalls) <= 1
        /\ Len(last[c].posts) <= 1
        /\ last[c].kind = "inference" => last[c].posts = <<>>
        /\ last[c].kind = "helper" => last[c].smCalls = <<>>

C2_Witness ==
    \E c \in Containers :
        /\ last[c].kind = "inference"
        /\ last[c].world.raises
        /\ last[c].raised = "ClientError"
        /\ Len(last[c].smCalls) = 1

\* what a request was given: the event, the environment and what the called
\* service did
SameRequest(a, b) ==
    /\ a.kind = b.kind
    /\ a.kind # "none"
    /\ a.event = b.event
    /\ a.env = b.env
    /\ a.world = b.world

WithoutTimeStamp(posts) == [i \in DOMAIN posts |-> [posts[i] EXCEPT !.TimeStamp = 0]]

\* what a request produced, apart from the fresh UUID and the timestamp
SameOutcome(a, b) ==
    /\ a.smCalls = b.smCalls
    /\ a.response = b.response
    /\ a.raised = b.raised
    /\ a.logged = b.logged
    /\ WithoutTimeStamp(a.posts) = WithoutTimeStamp(b.posts)
    /\ DOMAIN a.data = DOMAIN b.data
    /\ \A k \in (DOMAIN a.data) \ {"UUID"} : a.data[k] = b.data[k]

\* C3: no shared mutable state across requests: two deployments with any two
\* histories of earlier requests answer the same request (same event, environment
\* and service behaviour) with the same calls and the same response data,
\* apart from the fresh UUID and timestamp
C3_NoSharedState ==
    \A c1, c2 \in Containers :
        SameRequest(last[c1], last[c2]) => SameOutcome(last[c1], last[c2])

\* a helper whose module still held a UUID from an earlier Create and a
\* freshly started one both served the same Update of the UUID resource
C3_Witness ==
    /\ last["d1"].warm /\ ~last["d2"].warm
    /\ last["d1"].kind = "helper"
    /\ last["d1"].event.RequestType = "Update"
    /\ last["d1"].event.ResourceProperties["Resource"] = "UUID"
    /\ SameRequest(last["d1"], last["d2"])

IsUUIDRequest(inv, request_type) ==
    /\ inv.kind = "helper"
    /\ inv.event.RequestType = request_type
    /\ "Resource" \in DOMAIN inv.event.ResourceProperties
    /\ inv.event.ResourceProperties["Resource"] = "UUID"

\* C4: when the CreateModelRegistry property of the CreateUniqueID resource
\* (Resource = 'UUID') is updated, a new UUID is generated and returned in the
\* resource's data, as it is when the resource is created
C4_UpdateGeneratesUUID ==
    \A c \in Containers :
        (IsUUIDRequest(last[c], "Create") \/ IsUUIDRequest(last[c], "Update")) =>
            /\ "UUID" \in DOMAIN last[c].data
            /\ last[c].data["UUID"] \in FreshUUIDs

IsHelperRequest(inv, resource) ==
    /\ inv.kind = "helper"
    /\ "Resource" \in DOMAIN inv.event.ResourceProperties
    /\ inv.event.ResourceProperties["Resource"] = resource

SanitisedKeys == {"ServiceToken", "Resource", "SolutionId", "UUID"}

\* C14: the metrics payload's 'Data' never contains ServiceToken, Resource,
\* SolutionId or UUID and always contains RequestType equal to the event's
\* request type (with every other property kept), while the payload's
\* 'Solution' and 'UUID' are the SolutionId and UUID of the event's
\* ResourceProperties
C14_MetricsPayloadSanitised ==
    \A c \in Containers :
        last[c].kind = "helper" =>
            \A i \in DOMAIN last[c].posts :
                LET payload == last[c].posts[i]
                    properties == last[c].event.ResourceProperties
                IN /\ DOMAIN payload.Data \cap SanitisedKeys = {}
                   /\ "RequestType" \in DOMAIN payload.Data
                   /\ payload.Data["RequestType"] = last[c].event.RequestType
                   /\ DOMAIN payload.Data
                          = ((DOMAIN properties) \ SanitisedKeys) \cup {"RequestType"}
                   /\ \A k \in (DOMAIN properties) \ SanitisedKeys :
                          payload.Data[k] = properties[k]
                   /\ payload.Solution = properties["SolutionId"]
                   /\ payload.UUID = properties["UUID"]

C14_Witness ==
    \E c \in Containers :
        /\ IsHelperRequest(last[c], "AnonymousMetric")
        /\ last[c].event.RequestType = "Delete"
        /\ Len(last[c].posts) = 1
        /\ last[c].posts[1].Data = [gitSelected |-> "repo", bucketSelected |-> "",
                                    Region |-> "us-east-1", RequestType |-> "Delete"]
        /\ last[c].posts[1].Solution = "SO0136"
        /\ last[c].posts[1].UUID = "uuid-0"

\* C15: custom_resource leaves event['ResourceProperties'] unchanged for
\* every resource kind and request type: after the call the event still has
\* every key and value it had before, ServiceToken, Resource, SolutionId and
\* UUID included
C15_EventUnchanged ==
    \A c \in Containers :
        last[c].kind = "helper" =>
            /\ last[c].eventAfter = last[c].event
            /\ DOMAIN last[c].eventAfter.ResourceProperties
                   = DOMAIN last[c].event.ResourceProperties

C15_Witness ==
    \E c \in Containers :
        /\ IsHelperRequest(last[c], "AnonymousMetric")
        /\ Len(last[c].posts) = 1
        /\ SanitisedKeys \subseteq DOMAIN last[c].eventAfter.ResourceProperties
        /\ DOMAIN last[c].posts[1].Data \cap SanitisedKeys = {}

\* the values helper.Data may hold when custom_resource is entered
PriorData == {EmptyDict} \cup {[UUID |-> u] : u \in FreshUUIDs}

\* C16: a failure while building or sending the metric never fails the custom
\* resource: for Resource = 'AnonymousMetric' and any request type, when a
\* key among gitSelected, bucketSelected, SolutionId, UUID is missing or the
\* HTTP post raises, custom_resource returns normally and helper.Data is as
\* it was on entry
C16_MetricFailureContained ==
    \A c \in Containers :
        (/\ IsHelperRequest(last[c], "AnonymousMetric")
         /\ \/ ~(MetricKeys \subseteq DOMAIN last[c].event.ResourceProperties)
            \/ last[c].world.raises) =>
            /\ last[c].raised = ""
            /\ last[c].data = EmptyDict
            /\ last[c].logged # ""
            /\ \A data \in PriorData, u \in FreshUUIDs, t \in Timestamps :
                  LET r == custom_resource(data, last[c].event, u, t, last[c].world)
                  IN r.raised = "" /\ r.data = data

C16_Witness ==
    \E c \in Containers :
        /\ IsHelperRequest(last[c], "AnonymousMetric")
        /\ last[c].event.RequestType = "Update"
        /\ "SolutionId" \notin DOMAIN last[c].event.ResourceProperties
        /\ last[c].raised = ""
        /\ last[c].posts = <<>>
        /\ last[c].logged = "Unknown error when trying to send usage data"

C18_NoSuccessOnFailure ==
    \A c \in Containers :
        last[c].kind = "inference" =>
            /\ ~HasBothKeys(last[c]) =>
                  /\ last[c].raised = "KeyError"
                  /\ last[c].response = <<>>
                  /\ last[c].smCalls = <<>>
            /\ (HasBothKeys(last[c]) /\ last[c].world.raises) =>
                  /\ last[c].raised = "ClientError"
                  /\ last[c].response = <<>>
            /\ last[c].response # <<>> =>
                  /\ last[c].raised = ""
                  /\ HasBothKeys(last[c]) /\ ~last[c].world.raises

C18_Witness ==
    \E c \in Containers :
        /\ last[c].kind = "inference"
        /\ last[c].event = [payload |-> "1,2,3"]
        /\ last[c].raised = "KeyError"
        /\ last[c].response = <<>>
        /\ last[c].smCalls = <<>>

(***************************************************************************)
(* Properties of the orchestrator fixtures                                 *)
(***************************************************************************)
NoDuplicates(seq) == Cardinality(Range(seq)) = Len(seq)

RealtimeBase ==
    {"pipeline_type", "model_name", "inference_instance", "data_capture_location"}

ModelFields == {"model_framework", "model_framework_version", "model_artifact_location"}

\* C5: every required-keys list contains 'pipeline_type'; for
\* byom_realtime_builtin it is the four base keys plus exactly
\* model_package_name when use_model_registry is 'Yes' and plus exactly the
\* three model fields for any other value, never both
C5_RequiredKeysRealtimeBuiltin ==
    built.op = "required" =>
        /\ "pipeline_type" \in Range(built.out)
        /\ NoDuplicates(built.out)
        /\ Cardinality({Range(required_api_byom_realtime_builtin("Yes")),
                        Range(required_api_byom_realtime_builtin("No")),
                        Range(required_api_byom_batch_builtin),
                        Range(required_api_byom_realtime_custom),
                        Range(required_api_byom_batch_custom),
                        Range(required_api_image_builder)}) = 6
        /\ built.fixture = "required_api_byom_realtime_builtin" =>
              LET keys == Range(built.out)
              IN /\ built.args.use_model_registry = "Yes" =>
                        keys = RealtimeBase \cup {"model_package_name"}
                 /\ built.args.use_model_registry # "Yes" =>
                        keys = RealtimeBase \cup ModelFields
                 /\ ~("model_package_name" \in keys /\ keys \cap ModelFields # {})

C5_Witness ==
    /\ built.op = "required"
    /\ built.fixture = "required_api_byom_realtime_builtin"
    /\ built.args.use_model_registry = "Yes"
    /\ "model_package_name" \in Range(built.out)
    /\ Len(built.out) = 5

CommonKeySet ==
    {"pipeline_type", "model_name", "endpoint_name", "baseline_data",
     "baseline_job_output_location", "data_capture_location",
     "monitoring_output_location", "schedule_expression",
     "monitor_max_runtime_seconds", "instance_type", "instance_volume_size"}

ModelQualityKeySet ==
    {"baseline_inference_attribute", "baseline_ground_truth_attribute", "problem_type",
     "monitor_ground_truth_input"}

ProbabilityKeySet ==
    {"monitor_probability_attribute", "probability_threshold_attribute",
     "baseline_probability_attribute"}

\* C6: the model-monitor required keys are the eleven common keys for every
\* monitoring type other than 'ModelQuality'; for 'ModelQuality' they are the
\* common keys, the four model-quality keys, and monitor_inference_attribute
\* when problem_type is Regression or MulticlassClassification, the three
\* probability keys (and not monitor_inference_attribute) otherwise
C6_RequiredKeysModelMonitor ==
    (built.op = "required" /\ built.fixture = "required_api_keys_model_monitor") =>
        LET keys == Range(built.out)
            mt == built.args.monitoring_type
            pt == built.args.problem_type
        IN /\ Cardinality(CommonKeySet) = 11
           /\ NoDuplicates(built.out)
           /\ mt # "ModelQuality" => keys = CommonKeySet
           /\ (mt = "ModelQuality" /\ pt \in {"Regression", "MulticlassClassification"}) =>
                 keys = CommonKeySet \cup ModelQualityKeySet \cup {"monitor_inference_attribute"}
           /\ (mt = "ModelQuality" /\ pt \notin {"Regression", "MulticlassClassification"}) =>
                 keys = CommonKeySet \cup ModelQualityKeySet \cup ProbabilityKeySet

C6_Witness ==
    /\ built.op = "required"
    /\ built.fixture = "required_api_keys_model_monitor"
    /\ built.args.monitoring_type = "ModelQuality"
    /\ built.args.problem_type = "MulticlassClassification"
    /\ "monitor_inference_attribute" \in Range(built.out)
    /\ Len(built.out) = 16

\* the required-keys lists an event fixture has to satisfy: the list of its
\* pipeline type (both use_model_registry values for byom_realtime_builtin),
\* and for the monitor events the list of their monitoring and problem type
RequiredListsFor(b) ==
    IF b.fixture = "api_byom_event"
    THEN CASE b.args.pipeline_type = "byom_realtime_builtin" ->
                  {required_api_byom_realtime_builtin(u) : u \in {"Yes", "No"}}
           [] b.args.pipeline_type = "byom_batch_builtin" -> {required_api_byom_batch_builtin}
           [] b.args.pipeline_type = "byom_realtime_custom" ->
                  {required_api_byom_realtime_custom}
           [] b.args.pipeline_type = "byom_batch_custom" -> {required_api_byom_batch_custom}
           [] OTHER -> {}
    ELSE CASE b.fixture = "api_image_builder_event" -> {required_api_image_builder}
           [] b.fixture = "api_data_quality_event" ->
                  {required_api_keys_model_monitor("DataQuality", "None")}
           [] b.fixture = "api_model_quality_event" ->
                  {required_api_keys_model_monitor("ModelQuality", b.out["problem_type"])}
           [] b.fixture = "api_model_monitor_event" ->
                  {required_api_keys_model_monitor(b.args.monitoring_type, "None")}

\* C7: every request event the fixtures build contains all keys required for
\* its type: api_byom_event for the four BYOM types, api_image_builder_event,
\* and the three monitor events for the model-monitor required list
C7_EventsHaveRequiredKeys ==
    built.op = "event" =>
        \A required \in RequiredListsFor(built) : Range(required) \subseteq DOMAIN built.out

Keys(pairs) == [i \in DOMAIN pairs |-> pairs[i][1]]

\* C8: the single-account and the multi-account format of the image-builder
\* parameters each hold exactly the key/value pairs of
\* expected_image_builder_params, one entry per pair, in the same order, and
\* the three request fields of the image-builder event are the values of three
\* distinct parameters
C8_ParamFormatsAgree ==
    (built.op = "params") =>
        /\ built.out = expected_image_builder_params
        /\ NoDuplicates(Keys(built.out))
        /\ \A k \in (DOMAIN api_image_builder_event) \ {"pipeline_type"} :
              Cardinality({i \in DOMAIN built.out :
                              built.out[i][2] = api_image_builder_event[k]}) = 1

C8_Witness ==
    /\ built.op = "params"
    /\ built.fixture = "expected_multi_account_params_format"
    /\ Len(built.out) = 5
    /\ built.out[4] = <<"ECRRepoName", "mlops-ecrrep">>

BatchTypes == {"byom_batch_builtin", "byom_batch_custom"}
RealtimeTypes == {"byom_realtime_builtin", "byom_realtime_custom"}
BuiltinTypes == {"byom_realtime_builtin", "byom_batch_builtin"}
CustomTypes == {"byom_realtime_custom", "byom_batch_custom"}

\* the fields of the event that hold one value per account in a multi-account
\* deployment
PerAccountFields ==
    {"inference_instance", "batch_job_output_location", "data_capture_location",
     "endpoint_name"}

CommonThree ==
    <<<<"AssetsBucket", "testassetsbucket">>, <<"KmsKeyArn", "">>,
      <<"BlueprintBucket", "testbucket">>>>

\* the value a list of pairs gives for a key
ValuesOf(pairs, key) == {pairs[i][2] : i \in {j \in DOMAIN pairs : pairs[j][1] = key}}

\* C22: the expected parameter lists compose: expected_batch_params is the
\* three common entries (AssetsBucket, KmsKeyArn, BlueprintBucket), then
\* expected_common_realtime_batch_params, then expected_batch_specific_params;
\* expected_params_realtime_custom(p) is the same three entries, then
\* expected_common_realtime_batch_params, then
\* expected_realtime_specific_params(p), for both values of p; and EndpointName
\* is empty exactly when no endpoint name is provided
C22_ExpectedParamsCompose ==
    built.op = "expected_params" =>
        /\ NoDuplicates(Keys(built.out))
        /\ built.fixture = "expected_batch_params" =>
              built.out = CommonThree \o expected_common_realtime_batch_params
                              \o expected_batch_specific_params
        /\ built.fixture = "expected_params_realtime_custom" =>
              built.out = CommonThree \o expected_common_realtime_batch_params
                              \o expected_realtime_specific_params(
                                     built.args.endpoint_name_provided)
        /\ built.fixture \in {"expected_params_realtime_custom",
                              "expected_realtime_specific_params"} =>
              /\ ValuesOf(built.out, "EndpointName") = {""}
                     <=> ~built.args.endpoint_name_provided
              /\ built.args.endpoint_name_provided =>
                     ValuesOf(built.out, "EndpointName") = {"test-endpoint"}

C22_Witness ==
    /\ built.op = "expected_params"
    /\ built.fixture = "expected_params_realtime_custom"
    /\ ~built.args.endpoint_name_provided
    /\ Len(built.out) = 12
    /\ built.out[12] = <<"EndpointName", "">>
    /\ SubSeq(built.out, 4, 10) = expected_common_realtime_batch_params

\* C23: for each of the four BYOM pipeline types, applying that type's
\* template-parameters fixture to the event api_byom_event builds for the same
\* type succeeds without a missing-key error, and returns a list in which
\* every ParameterValue is read from a key present in that event or from the
\* environment
C23_TemplateParametersSucceed ==
    built.op = "template_parameters" =>
        LET event == api_byom_event(built.args.pipeline_type, built.args.is_multi,
                                    built.args.endpint_name_provided)
            params == built.out.out
            \* the event key each position past the common six is read from
            rest == CASE built.args.pipeline_type = "byom_realtime_builtin" ->
                             <<"model_framework", "model_framework_version">>
                      [] built.args.pipeline_type = "byom_batch_builtin" ->
                             <<"model_framework", "model_framework_version",
                               "batch_inference_data">>
                      [] built.args.pipeline_type = "byom_realtime_custom" ->
                             <<"custom_model_container">>
                      [] built.args.pipeline_type = "byom_batch_custom" ->
                             <<"custom_model_container", "batch_inference_data">>
        IN /\ built.out.raised = <<>>
           /\ Len(params) = 6 + Len(rest)
           /\ \A i \in 1..3 : \E k \in DOMAIN Environ : params[i].ParameterValue = Environ[k]
           /\ params[4].ParameterValue = event["model_name"]
           /\ params[5].ParameterValue = event["model_artifact_location"]
           /\ params[6].ParameterValue = event["inference_instance"]
           /\ \A i \in DOMAIN rest :
                  /\ rest[i] \in DOMAIN event
                  /\ params[6 + i].ParameterValue = event[rest[i]]

(***************************************************************************)
(* Properties of the pipeline-definition factories                         *)
(***************************************************************************)
BaseVariables ==
    {"MONITORING_TYPE", "BASELINE_JOB_NAME", "ASSETS_BUCKET", "SAGEMAKER_ENDPOINT_NAME",
     "BASELINE_DATA_LOCATION", "BASELINE_JOB_OUTPUT_LOCATION", "INSTANCE_TYPE",
     "INSTANCE_VOLUME_SIZE", "MAX_RUNTIME_SECONDS", "ROLE_ARN", "KMS_KEY_ARN",
     "STACK_NAME", "LOG_LEVEL"}

ModelQualityVariables ==
    {"PROBLEM_TYPE", "GROUND_TRUTH_ATTRIBUTE", "INFERENCE_ATTRIBUTE",
     "PROBABILITY_ATTRIBUTE", "PROBABILITY_THRESHOLD_ATTRIBUTE"}

ModelActions == {"sagemaker:CreateModel", "sagemaker:DescribeModel", "sagemaker:DeleteModel"}

EndpointActions ==
    {"sagemaker:CreateEndpointConfig", "sagemaker:DescribeEndpointConfig",
     "sagemaker:DeleteEndpointConfig", "sagemaker:CreateEndpoint",
     "sagemaker:DescribeEndpoint", "sagemaker:DeleteEndpoint"}

PolicyExists(policy) == policy.condition = <<>> \/ policy.condition = <<TRUE>>

\* the statements of a role that grant on CloudFormation ARNs
StackSetStatements(role) ==
    {i \in DOMAIN role.statements :
        \E r \in Range(role.statements[i].resources) : r[1] = "cloudformation"}

\* the account ids in the stackset/ and stackset-target/ ARNs of a statement
StackSetAccounts(statement) ==
    {r[3] : r \in {x \in Range(statement.resources) : x[4] \in {"stackset", "stackset-target"}}}

ProcessingJobActions ==
    {"sagemaker:CreateProcessingJob", "sagemaker:DescribeProcessingJob",
     "sagemaker:StopProcessingJob", "sagemaker:DeleteProcessingJob"}

KmsActions ==
    {"kms:Encrypt", "kms:Decrypt", "kms:CreateGrant", "kms:ReEncrypt*",
     "kms:GenerateDataKey*", "kms:DescribeKey"}

\* the statements of a role or policy that grant one of the actions
StatementsGranting(holder, actions) ==
    {holder.statements[i] : i \in {j \in DOMAIN holder.statements :
                                      Range(holder.statements[j].actions) \cap actions # {}}}

DependsOn(m) == {FromImports[m][i].module : i \in DOMAIN FromImports[m]} \cap SrcModules

RECURSIVE ReachableFrom(_, _)
ReachableFrom(S, k) ==
    IF k = 0 THEN S ELSE ReachableFrom(S \cup UNION {DependsOn(x) : x \in S}, k - 1)

\* the modules m depends on, directly or through other modules
Reach(m) == ReachableFrom(DependsOn(m), Cardinality(SrcModules))

\* the directions the assembly allows: stacks use actions and helpers, actions
\* use policies and helpers, policies use helpers, helpers use none of them
AllowedDependencies ==
    [byom_custom_algorithm_image_builder |-> {"deploy_actions", "helpers"},
     deploy_actions |-> {"iam_policies", "helpers"},
     iam_policies |-> {"helpers"},
     helpers |-> {}]

\* C13: the dependency relation among the stack definition, deploy_actions,
\* iam_policies and helpers is acyclic and one-directional: stacks depend on
\* actions/helpers, actions on policies/helpers, policies on helpers, helpers
\* on none of them; so loading any of them never comes back to a module that
\* is still loading, and a module runs only after the modules it depends on
C13_AcyclicDependencies ==
    built.op = "import" =>
        /\ \A m \in SrcModules : m \notin Reach(m)
        /\ \A m \in SrcModules : DependsOn(m) \subseteq AllowedDependencies[m]
        /\ ~built.out.circular
        /\ \A k \in DOMAIN built.out.loaded :
              built.out.loaded[k] \in SrcModules =>
                  DependsOn(built.out.loaded[k])
                      \subseteq {built.out.loaded[j] : j \in 1..(k - 1)}

C13_Witness ==
    /\ built.op = "import"
    /\ built.fixture = "byom_custom_algorithm_image_builder"
    /\ built.out.raised = <<>>
    /\ built.out.loaded = <<"aws_cdk", "source_actions", "build_actions", "helpers",
                            "templates_parameters", "byom_custom_algorithm_image_builder">>
    /\ Reach("deploy_actions") = {"iam_policies", "helpers"}

\* the names module m imports from helpers
ImportedFromHelpers(m) ==
    UNION {Range(FromImports[m][i].names) :
              i \in {j \in DOMAIN FromImports[m] : FromImports[m][j].module = "helpers"}}

\* C19: every name that deploy_actions.py, iam_policies.py and
\* byom_custom_algorithm_image_builder.py import from helpers is defined in
\* helpers.py, so that each of these modules can be loaded
C19_ImportedNamesDefined ==
    built.op = "import" =>
        /\ ImportedFromHelpers(built.fixture) \subseteq Defines["helpers"]
        /\ built.out.raised = <<>>
        /\ built.out.loaded # <<>>
        /\ built.out.loaded[Len(built.out.loaded)] = built.fixture

(***************************************************************************)
(* Properties of the image-builder pipeline                                *)
(***************************************************************************)
IsPrefix(s, t) == Len(s) <= Len(t) /\ \A i \in DOMAIN s : s[i] = t[i]

Outcomes == {"SUCCEEDED", "FAILED"}

\* the message the notification topic publishes for an execution's outcome
OutcomeMessage(e, state) ==
    [topic |-> "PipelineNotification", execution |-> e,
     text |-> <<"Pipeline ", "BYOMPipelineReatimeBuild", " finished executing. ",
                "Pipeline execution result is ", state>>]

\* two stages, Source then Build; in every execution the build action is
\* started only after the source action; and every message published is the
\* outcome message of an execution whose state is that outcome
PipelineOrderAndMessages ==
    pipeline.stack # <<>> =>
        /\ [i \in DOMAIN pipeline.stack[1].pipeline.stages |->
                pipeline.stack[1].pipeline.stages[i].stage_name] = <<"Source", "Build">>
        /\ \A e \in Executions :
              /\ IsPrefix(pipeline.executions[e].started,
                          <<"source_action_custom", "build_action">>)
              /\ pipeline.executions[e].state = "SUCCEEDED" =>
                    pipeline.executions[e].started = <<"source_action_custom", "build_action">>
        /\ \A m \in pipeline.published :
              /\ pipeline.executions[m.execution].state \in Outcomes
              /\ m = OutcomeMessage(m.execution, pipeline.executions[m.execution].state)

\* C12: the image-builder pipeline has exactly two stages, Source then Build,
\* so in every execution the Build action starts only after the Source action;
\* and a message is published to the notification topic whenever the
\* pipeline's execution state becomes SUCCEEDED or FAILED, and for no other
\* state
C12_StagesAndNotification ==
    /\ []PipelineOrderAndMessages
    /\ \A e \in Executions : \A s \in Outcomes :
          (pipeline.executions[e].state = s) ~> (OutcomeMessage(e, s) \in pipeline.published)

\* an execution failed in the Build stage and the user was told, while a
\* stopped execution produced no message
C12_Witness ==
    /\ pipeline.stack # <<>>
    /\ pipeline.executions[1].state = "FAILED"
    /\ pipeline.executions[1].started = <<"source_action_custom", "build_action">>
    /\ OutcomeMessage(1, "FAILED") \in pipeline.published
    /\ pipeline.executions[2].state = "STOPPED"
    /\ pipeline.bus = {}
    /\ \A m \in pipeline.published : m.execution = 1

====
